---------------------------- MODULE Spec2Model ----------------------------
(***************************************************************************)
(* Model of the Jalali (Solar Hijri) calendar library of the Dastyar       *)
(* dashboard extension: the JDN-based conversion functions                 *)
(* (isJalaliLeapYear, jalaliToJulian, julianToJalali, gregorianToJulian,   *)
(* julianToGregorian) and the JalaliDate class built on them.              *)
(*                                                                         *)
(* The conversion functions are pure; they are operators here, computed    *)
(* step by step as the JavaScript computes them.  JavaScript arithmetic    *)
(* is rendered as follows:                                                 *)
(*   - Math.floor(a / b) for integers a and b > 0 is  a \div b  (TLA+      *)
(*     integer division rounds towards minus infinity, as Math.floor);     *)
(*   - a % b keeps the sign of the dividend in JavaScript: JsMod(a, b);    *)
(*   - a thrown Error is the result Throw, a returned value v is           *)
(*     Return(v).                                                          *)
(***************************************************************************)
EXTENDS Integers, Sequences, FiniteSets, TLC

(***************************************************************************)
(* Results of a call.                                                      *)
(***************************************************************************)
Pending == [kind |-> "pending"]
Throw == [kind |-> "throw"]
Return(v) == [kind |-> "return", v |-> v]

Returned(r) == r.kind = "return"
Threw(r) == r.kind = "throw"

YMD(y, m, d) == [year |-> y, month |-> m, day |-> d]

(***************************************************************************)
(* JavaScript's remainder operator: the result has the sign of the         *)
(* dividend (-5 % 33 is -5, not 28).                                       *)
(***************************************************************************)
JsMod(a, b) == IF a >= 0 THEN a % b ELSE 0 - ((0 - a) % b)

(***************************************************************************)
(* Constants and lookup tables of the library.                             *)
(***************************************************************************)
JALALI_EPOCH == 1948321

breaks ==
    << -61, 9, 38, 199, 426, 686, 756, 818, 1111, 1181, 1210,
       1635, 2060, 2097, 2192, 2262, 2324, 2394, 2456, 3178 >>

(***************************************************************************)
(* The scan of the break table, written three times in the source          *)
(* (isJalaliLeapYear, jalaliToJulian, julianToJalali) with the same text:  *)
(*     let jp = breaks[0]; let jump = 0;                                   *)
(*     for (i = 1; i < breaks.length; i++) {                               *)
(*         jm = breaks[i]; jump = jm - jp; if (jy < jm) break; jp = jm; }  *)
(* i is the 1-based index of the entry examined next.                      *)
(***************************************************************************)
RECURSIVE ScanBreaks(_, _, _, _)
ScanBreaks(jy, i, jp, jump) ==
    IF i > Len(breaks)
    THEN [jp |-> jp, jump |-> jump]
    ELSE LET jm == breaks[i]
         IN  IF jy < jm
             THEN [jp |-> jp, jump |-> jm - jp]
             ELSE ScanBreaks(jy, i + 1, jm, jm - jp)

(***************************************************************************)
(* n after the scan with the tail adjustment left out.                     *)
(***************************************************************************)
CycleOffsetNoTail(jy) ==
    LET s == ScanBreaks(jy, 2, breaks[1], 0)
        n == jy - s.jp
    IN  n

(***************************************************************************)
(* n after the scan and the tail adjustment:                               *)
(*     let n = jy - jp;                                                    *)
(*     if (jump - n < 6) n = n - jump + Math.floor(jump / 33) * 33;        *)
(***************************************************************************)
CycleOffset(jy) ==
    LET s == ScanBreaks(jy, 2, breaks[1], 0)
        n == jy - s.jp
    IN  IF s.jump - n < 6
        THEN n - s.jump + ((s.jump \div 33) * 33)
        ELSE n

(***************************************************************************)
(* isJalaliLeapYear with jy < 0 as its test: the year 0 is accepted.       *)
(***************************************************************************)
isJalaliLeapYearFromZero(jy) ==
    IF jy < 0
    THEN Throw
    ELSE LET n == CycleOffset(jy)
             raw == JsMod(JsMod(n + 1, 33) - 1, 4)
             leapFactor == IF raw = -1 THEN 4 ELSE raw
         IN  Return(leapFactor = 0)

(***************************************************************************)
(* isJalaliLeapYear(jy) for an integer jy; the Number.isInteger half of    *)
(* its test is in JalaliDate_isLeapYear below.                             *)
(***************************************************************************)
isJalaliLeapYear(jy) ==
    IF jy < 1
    THEN Throw
    ELSE LET n == CycleOffset(jy)
             raw == JsMod(JsMod(n + 1, 33) - 1, 4)
             leapFactor == IF raw = -1 THEN 4 ELSE raw
         IN  Return(leapFactor = 0)

(***************************************************************************)
(* JalaliDate.isLeapYear = isJalaliLeapYear, called with any JavaScript    *)
(* number: Whole(n) is the integer n, Fractional(n) the number n + 1/2.    *)
(* The function starts with                                                *)
(*     if (!Number.isInteger(jy) || jy < 1) throw new Error(...)           *)
(***************************************************************************)
Whole(n) == [n |-> n, fraction |-> FALSE]
Fractional(n) == [n |-> n, fraction |-> TRUE]
NumberIsInteger(x) == ~x.fraction

JalaliDate_isLeapYear(x) ==
    IF ~NumberIsInteger(x) THEN Throw ELSE isJalaliLeapYear(x.n)

(***************************************************************************)
(* JalaliCalendar.isJalaliLeapYear(year) of the calendar module.           *)
(***************************************************************************)
JalaliCalendar_isJalaliLeapYear(year) ==
    LET cycle == 2820
        aux == year + 38 - 474
        rem == JsMod(aux, cycle)
        modulo == IF rem < 0 THEN rem + cycle ELSE rem
        gy == 474 + modulo
        leapIndex == JsMod(JsMod(gy + 38 + 31, 128), 33)
    IN  leapIndex \in {1, 5, 9, 13, 17, 22, 26, 30}

(***************************************************************************)
(* Calendar.isJalaliLeapYear(year) of the calendar widget (calendar.js).   *)
(***************************************************************************)
Calendar_isJalaliLeapYear(year) ==
    LET cycle == JsMod(year, 33)
    IN  cycle \in {1, 5, 9, 13, 17, 22, 26, 30}

(***************************************************************************)
(* The day number of the start of the year, as both Jalali converters      *)
(* compute it from n:                                                      *)
(*     JALALI_EPOCH + 365*n + Math.floor((n / 33) * 8)                     *)
(*                  + Math.floor(((n % 33) + 3) / 4)                       *)
(* (n / 33) * 8 is a floating-point product; 8 is a power of two, so the   *)
(* product is 8 times the rounded quotient and its floor is that of        *)
(* 8n / 33: the quotient is exact when 33 divides n and otherwise at       *)
(* least 1/33 away from an integer.                                        *)
(***************************************************************************)
YearStart(n) ==
    JALALI_EPOCH + (365 * n) + ((8 * n) \div 33) + ((JsMod(n, 33) + 3) \div 4)

(***************************************************************************)
(* jalaliToJulian(jy, jm, jd).  leapJ, leapG and gy are computed by the    *)
(* source and never used; they are left out.                               *)
(***************************************************************************)
jalaliToJulian(jy, jm, jd) ==
    IF jy < 1 THEN Throw
    ELSE IF jm < 1 \/ jm > 12 THEN Throw
    ELSE IF jd < 1 \/ jd > 31 THEN Throw
    ELSE LET n == CycleOffset(jy)
             jpd == YearStart(n) + jd
         IN  IF jm < 7
             THEN Return(jpd + ((jm - 1) * 31))
             ELSE Return(jpd + ((jm - 7) * 30) + 186)

(***************************************************************************)
(* julianToJalali(jdn).                                                    *)
(*     jy = Math.floor((jdn - JALALI_EPOCH + 0.5) / 365.25)                *)
(* is floor((4k + 2) / 1461) for k = jdn - JALALI_EPOCH >= 0; the          *)
(* floating-point quotient is exact at k = 730 (the only integer value     *)
(* in reach of rounding) and at least 1/1461 from an integer elsewhere.    *)
(***************************************************************************)
julianToJalali(jdn) ==
    IF jdn < JALALI_EPOCH
    THEN Throw
    ELSE LET jy == ((4 * (jdn - JALALI_EPOCH)) + 2) \div 1461
             n == CycleOffset(jy)
             jpd == YearStart(n)
         IN  IF jdn >= jpd
             THEN LET m1 == (jdn - jpd) \div 31
                  IN  IF m1 >= 6
                      THEN LET m2 == (jdn - jpd - 186) \div 30
                           IN  Return(YMD(jy, m2 + 7,
                                          ((jdn - jpd - 186) - (m2 * 30)) + 1))
                      ELSE Return(YMD(jy, m1 + 1,
                                      ((jdn - jpd) - (m1 * 31)) + 1))
             ELSE LET leap == isJalaliLeapYear(jy - 1)
                  IN  IF Threw(leap)
                      THEN Throw
                      ELSE Return(YMD(jy - 1, 12,
                                      (jdn - jpd)
                                        + (IF leap.v THEN 30 ELSE 29) + 1))

(***************************************************************************)
(* gregorianToJulian(gy, gm, gd).                                          *)
(***************************************************************************)
gregorianToJulian(gy, gm, gd) ==
    IF gm < 1 \/ gm > 12 THEN Throw
    ELSE IF gd < 1 \/ gd > 31 THEN Throw
    ELSE LET a == (14 - gm) \div 12
             y == gy + 4800 - a
             m == gm + (12 * a) - 3
         IN  Return(gd + (((153 * m) + 2) \div 5) + (365 * y)
                       + (y \div 4) - (y \div 100) + (y \div 400) - 32045)

(***************************************************************************)
(* julianToGregorian with the leap days of the four-year cycle dropped     *)
(* from e (365 * d in place of Math.floor((1461 * d) / 4)).                *)
(***************************************************************************)
julianToGregorianNoLeapDays(jdn) ==
    LET a == jdn + 32044
        b == ((4 * a) + 3) \div 146097
        c == a - ((146097 * b) \div 4)
        d == ((4 * c) + 3) \div 1461
        e == c - (365 * d)
        m == ((5 * e) + 2) \div 153
    IN  Return(YMD((100 * b) + d - 4800 + (m \div 10),
                   m + 3 - (12 * (m \div 10)),
                   e - (((153 * m) + 2) \div 5) + 1))

(***************************************************************************)
(* julianToGregorian(jdn).  Every integer is finite: no throw.             *)
(***************************************************************************)
julianToGregorian(jdn) ==
    LET a == jdn + 32044
        b == ((4 * a) + 3) \div 146097
        c == a - ((146097 * b) \div 4)
        d == ((4 * c) + 3) \div 1461
        e == c - ((1461 * d) \div 4)
        m == ((5 * e) + 2) \div 153
    IN  Return(YMD((100 * b) + d - 4800 + (m \div 10),
                   m + 3 - (12 * (m \div 10)),
                   e - (((153 * m) + 2) \div 5) + 1))

(***************************************************************************)
(* JalaliDate.getDaysInMonth(year, month), for month in 1..12 and          *)
(* year >= 1.                                                              *)
(***************************************************************************)
getDaysInMonth(year, month) ==
    IF month <= 6 THEN 31
    ELSE IF month <= 11 THEN 30
    ELSE IF isJalaliLeapYear(year).v THEN 30 ELSE 29

(***************************************************************************)
(* THE JalaliDate CLASS                                                    *)
(*                                                                         *)
(* A JalaliDate holds _jDate, a {year, month, day} record, and _gDate, a   *)
(* JavaScript Date.  A Date is an instant; the model counts it in minutes  *)
(* since 1970-01-01T00:00Z (the source counts milliseconds; every input    *)
(* of the model is a whole minute and no operation leaves the whole        *)
(* minutes).  Local time is UTC + tz minutes, a fixed offset.              *)
(***************************************************************************)
MinutesPerDay == 1440

\* the day number of a proleptic Gregorian civil date, and its inverse, as
\* the JavaScript runtime relates the fields of a Date to its time value
DaysFromCivil(y, m, d) ==
    LET a == (14 - m) \div 12
        yy == y + 4800 - a
        mm == m + (12 * a) - 3
    IN  d + (((153 * mm) + 2) \div 5) + (365 * yy)
          + (yy \div 4) - (yy \div 100) + (yy \div 400) - 32045

CivilFromDays(n) ==
    LET a == n + 32044
        b == ((4 * a) + 3) \div 146097
        c == a - ((146097 * b) \div 4)
        d == ((4 * c) + 3) \div 1461
        e == c - ((1461 * d) \div 4)
        m == ((5 * e) + 2) \div 153
    IN  YMD((100 * b) + d - 4800 + (m \div 10),
            m + 3 - (12 * (m \div 10)),
            e - (((153 * m) + 2) \div 5) + 1)

UnixEpochDay == DaysFromCivil(1970, 1, 1)

\* new Date(year, month - 1, day): local midnight of a valid civil date; a
\* year of 0..99 means 1900 + year to the Date constructor
NewDate(year, month, day, zone) ==
    LET y == IF year \in 0..99 THEN 1900 + year ELSE year
    IN  ((DaysFromCivil(y, month, day) - UnixEpochDay) * MinutesPerDay) - zone

\* getFullYear(), getMonth() + 1 and getDate() of a Date: its local civil date
DateFields(t, zone) == CivilFromDays(((t + zone) \div MinutesPerDay) + UnixEpochDay)

NoObject == [kind |-> "none"]
JalaliDateObject(j, g) == [kind |-> "JalaliDate", jDate |-> j, gDate |-> g]

(***************************************************************************)
(* The end of the constructor, when _jDate was not set by the branch       *)
(* taken: _jDate = julianToJalali(gregorianToJulian(fields of _gDate)).    *)
(* The result is the constructed object or Throw.                          *)
(***************************************************************************)
CacheJalali(g, zone) ==
    LET f == DateFields(g, zone)
        jdn == gregorianToJulian(f.year, f.month, f.day)
    IN  IF Threw(jdn)
        THEN Throw
        ELSE LET j == julianToJalali(jdn.v)
             IN  IF Threw(j) THEN Throw ELSE Return(JalaliDateObject(j.v, g))

(***************************************************************************)
(* new JalaliDate("Y-M-D"): three dash-separated numbers are taken as a    *)
(* Jalali date.                                                            *)
(***************************************************************************)
ConstructFromString(y, m, d, zone) ==
    LET jdn == jalaliToJulian(y, m, d)
    IN  IF Threw(jdn)
        THEN Throw
        ELSE LET greg == julianToGregorian(jdn.v).v
             IN  Return(JalaliDateObject(
                            YMD(y, m, d),
                            NewDate(greg.year, greg.month, greg.day, zone)))

(***************************************************************************)
(* The function the component branch of the constructor calls,             *)
(* jalaliToJulali: no function of this name is declared in the library     *)
(* (jalaliToJulian is the function meant), and the library runs in strict  *)
(* mode inside a function scope: the call raises a ReferenceError.         *)
(***************************************************************************)
jalaliToJulali(jy, jm, jd) == Throw

(***************************************************************************)
(* new JalaliDate(jy, jm, jd) with integer components.                     *)
(***************************************************************************)
ConstructFromComponents(jy, jm, jd, zone) ==
    LET jdn == jalaliToJulali(jy, jm, jd)
    IN  IF Threw(jdn)
        THEN Throw
        ELSE LET greg == julianToGregorian(jdn.v).v
             IN  Return(JalaliDateObject(
                            YMD(jy, jm, jd),
                            NewDate(greg.year, greg.month, greg.day, zone)))

(***************************************************************************)
(* _updateGregorian(), called by every setter after it has assigned the    *)
(* field of _jDate: o is the object with the field already assigned.  When *)
(* jalaliToJulian throws, the error leaves the setter and the assignment   *)
(* stays.                                                                  *)
(***************************************************************************)
updateGregorian(o, zone) ==
    LET jdn == jalaliToJulian(o.jDate.year, o.jDate.month, o.jDate.day)
    IN  IF Threw(jdn)
        THEN [outcome |-> Throw, obj |-> o]
        ELSE LET greg == julianToGregorian(jdn.v).v
                 prevTime == JsMod(o.gDate, MinutesPerDay)
             IN  [outcome |-> Return("undefined"),
                  obj |-> [o EXCEPT !.gDate =
                             NewDate(greg.year, greg.month, greg.day, zone)
                               + prevTime]]

setFullYear(o, jy, zone) == updateGregorian([o EXCEPT !.jDate.year = jy], zone)
setMonth(o, jm, zone) == updateGregorian([o EXCEPT !.jDate.month = jm + 1], zone)
setDate(o, jd, zone) == updateGregorian([o EXCEPT !.jDate.day = jd], zone)

\* toJalali() and toGregorian(): copies of the two stored values
toJalali(o) == YMD(o.jDate.year, o.jDate.month, o.jDate.day)
toGregorian(o) == o.gDate

(***************************************************************************)
(* Calendar rules the properties are stated against.                       *)
(***************************************************************************)
GregorianLeap(y) == (y % 4 = 0 /\ y % 100 # 0) \/ y % 400 = 0

GregorianDaysInMonth(y, m) ==
    IF m = 2 THEN (IF GregorianLeap(y) THEN 29 ELSE 28)
    ELSE IF m \in {4, 6, 9, 11} THEN 30
    ELSE 31

ValidGregorian(y, m, d) ==
    /\ m \in 1..12
    /\ d >= 1
    /\ d <= GregorianDaysInMonth(y, m)

ValidJalali(y, m, d) ==
    /\ y >= 1
    /\ m \in 1..12
    /\ d >= 1
    /\ d <= getDaysInMonth(y, m)

(***************************************************************************)
(* Bounds of the checked inputs.                                           *)
(***************************************************************************)
MinGYear == 1896
MaxGYear == 2030
MaxLowJdn == 146200
MaxEarlySpan == 15000
MaxEarlyJYear == 40
MinModernJYear == 1340
MaxModernJYear == 1410
MaxLeapYear == 3200
MaxPastYear == 40

\* 1 January MinGYear and 31 December MaxGYear as day numbers
ModernJdnLo == gregorianToJulian(MinGYear, 1, 1).v
ModernJdnHi == gregorianToJulian(MaxGYear, 12, 31).v

GregorianInputs ==
    { <<y, m, d>> : y \in MinGYear..MaxGYear, m \in 0..13, d \in 0..32 }

JalaliInputs ==
    { <<y, m, d>> : y \in (0..MaxEarlyJYear) \cup (MinModernJYear..MaxModernJYear),
                    m \in 0..13, d \in 0..32 }

JdnInputsG == { <<j>> : j \in (0..MaxLowJdn) \cup (ModernJdnLo..ModernJdnHi) }

JdnInputsJ ==
    { <<j>> : j \in ((JALALI_EPOCH - 2)..(JALALI_EPOCH + MaxEarlySpan))
                      \cup (ModernJdnLo..ModernJdnHi) }

LeapInputs == { <<y>> : y \in (0 - MaxPastYear)..MaxLeapYear }

\* numbers given to JalaliDate.isLeapYear: integers and halves
NumberInputs ==
    { <<x>> : x \in { Whole(y) : y \in (0 - MaxPastYear)..MaxModernJYear }
                      \cup { Fractional(y) : y \in (0 - MaxPastYear)..MaxModernJYear } }

(***************************************************************************)
(* State: the function, constructor or method called last (fn), its        *)
(* arguments (args) and its outcome (ret); the JalaliDate object the        *)
(* methods are called on (self); the offset of the host's local time from  *)
(* UTC, in minutes (tz); the number of constructor and method calls made   *)
(* so far (calls).                                                         *)
(***************************************************************************)
VARIABLES fn, args, ret, self, tz, calls

vars == <<fn, args, ret, self, tz, calls>>

(***************************************************************************)
(* Calls of the conversion functions exposed as JalaliDate.utils: the      *)
(* arguments are drawn initially, the call computes the result.            *)
(***************************************************************************)
Init ==
    /\ ret = Pending
    /\ self = NoObject
    /\ tz = 0
    /\ calls = 0
    /\ \/ fn = "gregorianToJulian" /\ args \in GregorianInputs
       \/ fn = "julianToGregorian" /\ args \in JdnInputsG
       \/ fn = "jalaliToJulian" /\ args \in JalaliInputs
       \/ fn = "julianToJalali" /\ args \in JdnInputsJ
       \/ fn = "isJalaliLeapYear" /\ args \in LeapInputs
       \/ fn = "JalaliDate.isLeapYear" /\ args \in NumberInputs
       \/ fn = "JalaliCalendar.isJalaliLeapYear" /\ args \in LeapInputs
       \/ fn = "Calendar.isJalaliLeapYear" /\ args \in LeapInputs

CallGregorianToJulian ==
    /\ fn = "gregorianToJulian"
    /\ ret = Pending
    /\ ret' = gregorianToJulian(args[1], args[2], args[3])
    /\ UNCHANGED <<fn, args, self, tz, calls>>

CallJulianToGregorian ==
    /\ fn = "julianToGregorian"
    /\ ret = Pending
    /\ ret' = julianToGregorian(args[1])
    /\ UNCHANGED <<fn, args, self, tz, calls>>

CallJalaliToJulian ==
    /\ fn = "jalaliToJulian"
    /\ ret = Pending
    /\ ret' = jalaliToJulian(args[1], args[2], args[3])
    /\ UNCHANGED <<fn, args, self, tz, calls>>

CallJulianToJalali ==
    /\ fn = "julianToJalali"
    /\ ret = Pending
    /\ ret' = julianToJalali(args[1])
    /\ UNCHANGED <<fn, args, self, tz, calls>>

CallIsJalaliLeapYear ==
    /\ fn = "isJalaliLeapYear"
    /\ ret = Pending
    /\ ret' = isJalaliLeapYear(args[1])
    /\ UNCHANGED <<fn, args, self, tz, calls>>

CallJalaliDateIsLeapYear ==
    /\ fn = "JalaliDate.isLeapYear"
    /\ ret = Pending
    /\ ret' = JalaliDate_isLeapYear(args[1])
    /\ UNCHANGED <<fn, args, self, tz, calls>>

CallJalaliCalendarIsJalaliLeapYear ==
    /\ fn = "JalaliCalendar.isJalaliLeapYear"
    /\ ret = Pending
    /\ ret' = Return(JalaliCalendar_isJalaliLeapYear(args[1]))
    /\ UNCHANGED <<fn, args, self, tz, calls>>

CallCalendarIsJalaliLeapYear ==
    /\ fn = "Calendar.isJalaliLeapYear"
    /\ ret = Pending
    /\ ret' = Return(Calendar_isJalaliLeapYear(args[1]))
    /\ UNCHANGED <<fn, args, self, tz, calls>>

Next ==
    \/ CallGregorianToJulian
    \/ CallJulianToGregorian
    \/ CallJalaliToJulian
    \/ CallJulianToJalali
    \/ CallIsJalaliLeapYear
    \/ CallJalaliDateIsLeapYear
    \/ CallJalaliCalendarIsJalaliLeapYear
    \/ CallCalendarIsJalaliLeapYear

Spec == Init /\ [][Next]_vars

(***************************************************************************)
(* Calls of the JalaliDate constructor and of the setters of the object    *)
(* constructed.  A constructor that throws yields no object: the object    *)
(* held before stays.                                                      *)
(***************************************************************************)
TimeZones == {0, 210}

SampleDays == { <<2024, 3, 20>>, <<1969, 12, 31>>, <<622, 3, 21>> }
SampleMinutes == {0, MinutesPerDay - 1}

\* instants given to the constructor: the sample days at the sample minutes, UTC
InstantInputs ==
    { ((DaysFromCivil(d[1], d[2], d[3]) - UnixEpochDay) * MinutesPerDay) + mi :
          d \in SampleDays, mi \in SampleMinutes }

MaxCalls == 3

ComponentInputs ==
    { <<y, m, d>> : y \in {0, 1403}, m \in {1, 6, 12, 13}, d \in {1, 30, 31, 32} }
SetYearInputs == {0, 1403, 1404}
SetMonthInputs == {-1, 0, 6, 11}
SetDayInputs == {0, 1, 30, 31}
Setters == {"setFullYear", "setMonth", "setDate"}

InitDate ==
    /\ fn = "none"
    /\ args = <<>>
    /\ ret = Pending
    /\ self = NoObject
    /\ tz \in TimeZones
    /\ calls = 0

\* the outcome r of a constructor call
Constructed(r) ==
    /\ ret' = (IF Threw(r) THEN Throw ELSE Return("object"))
    /\ self' = (IF Threw(r) THEN self ELSE r.v)
    /\ calls' = calls + 1
    /\ UNCHANGED tz

\* new JalaliDate(), new JalaliDate(date), new JalaliDate(timestamp): _gDate
\* is the current instant, a copy of the Date, the Date of the timestamp
NewFromInstant ==
    /\ calls < MaxCalls
    /\ \E f \in {"new()", "new(Date)", "new(number)"}, t \in InstantInputs :
           /\ fn' = f
           /\ args' = IF f = "new()" THEN <<>> ELSE <<t>>
           /\ Constructed(CacheJalali(t, tz))

\* new JalaliDate(other) and clone(): _gDate is a copy of the other's
NewCopy ==
    /\ calls < MaxCalls
    /\ self # NoObject
    /\ fn' = "new(JalaliDate)"
    /\ args' = <<>>
    /\ Constructed(CacheJalali(self.gDate, tz))

NewFromString ==
    /\ calls < MaxCalls
    /\ \E a \in ComponentInputs :
           /\ fn' = "new(string)"
           /\ args' = a
           /\ Constructed(ConstructFromString(a[1], a[2], a[3], tz))

NewFromComponents ==
    /\ calls < MaxCalls
    /\ \E a \in ComponentInputs :
           /\ fn' = "new(jy,jm,jd)"
           /\ args' = a
           /\ Constructed(ConstructFromComponents(a[1], a[2], a[3], tz))

\* two arguments: 'Invalid number of arguments for JalaliDate constructor'
NewWithTwoArguments ==
    /\ calls < MaxCalls
    /\ fn' = "new(a,b)"
    /\ args' = <<>>
    /\ Constructed(Throw)

\* the outcome u of a setter call
SetterDone(u) ==
    /\ ret' = u.outcome
    /\ self' = u.obj
    /\ calls' = calls + 1
    /\ UNCHANGED tz

CallSetFullYear ==
    /\ calls < MaxCalls
    /\ self # NoObject
    /\ \E jy \in SetYearInputs :
        /\ fn' = "setFullYear"
        /\ args' = <<jy>>
        /\ SetterDone(setFullYear(self, jy, tz))

CallSetMonth ==
    /\ calls < MaxCalls
    /\ self # NoObject
    /\ \E jm \in SetMonthInputs :
        /\ fn' = "setMonth"
        /\ args' = <<jm>>
        /\ SetterDone(setMonth(self, jm, tz))

CallSetDate ==
    /\ calls < MaxCalls
    /\ self # NoObject
    /\ \E jd \in SetDayInputs :
        /\ fn' = "setDate"
        /\ args' = <<jd>>
        /\ SetterDone(setDate(self, jd, tz))

NextDate ==
    \/ NewFromInstant
    \/ NewCopy
    \/ NewFromString
    \/ NewFromComponents
    \/ NewWithTwoArguments
    \/ CallSetFullYear
    \/ CallSetMonth
    \/ CallSetDate

SpecDate == InitDate /\ [][NextDate]_vars


(***************************************************************************)
(* PROPERTIES OF THE CONVERSION FUNCTIONS                                  *)
(***************************************************************************)
Called(f) == fn = f /\ ret # Pending

\* C1: for every valid Gregorian date (y,m,d) in the checked years, with
\* j = gregorianToJulian(y,m,d) and (jy,jm,jd) = julianToJalali(j),
\* jalaliToJulian(jy,jm,jd) completes without error and returns j.
C1_RoundTripByJdn ==
    (Called("gregorianToJulian") /\ ValidGregorian(args[1], args[2], args[3]))
        => /\ Returned(ret)
           /\ LET jal == julianToJalali(ret.v)
              IN  /\ Returned(jal)
                  /\ jalaliToJulian(jal.v.year, jal.v.month, jal.v.day)
                       = Return(ret.v)

\* C2: Gregorian 2024-03-20 converts to Jalali 1403-01-01 and Jalali
\* 1403-01-01 converts back to Gregorian 2024-03-20; likewise Gregorian
\* 1979-02-11 and Jalali 1357-11-22.
C2_ReferenceFixedPoints ==
    /\ (Called("gregorianToJulian") /\ args = <<2024, 3, 20>>)
          => (Returned(ret) /\ julianToJalali(ret.v) = Return(YMD(1403, 1, 1)))
    /\ (Called("jalaliToJulian") /\ args = <<1403, 1, 1>>)
          => (Returned(ret) /\ julianToGregorian(ret.v) = Return(YMD(2024, 3, 20)))
    /\ (Called("gregorianToJulian") /\ args = <<1979, 2, 11>>)
          => (Returned(ret) /\ julianToJalali(ret.v) = Return(YMD(1357, 11, 22)))
    /\ (Called("jalaliToJulian") /\ args = <<1357, 11, 22>>)
          => (Returned(ret) /\ julianToGregorian(ret.v) = Return(YMD(1979, 2, 11)))

\* C3: for every valid Jalali date (y,m,d),
\* julianToJalali(jalaliToJulian(y,m,d)) returns exactly (y,m,d).
C3_JalaliInverse ==
    (Called("jalaliToJulian") /\ ValidJalali(args[1], args[2], args[3]))
        => /\ Returned(ret)
           /\ julianToJalali(ret.v) = Return(YMD(args[1], args[2], args[3]))

\* C4: for every jdn >= 0 in the checked range, julianToGregorian(jdn) is a
\* valid Gregorian date (month in 1..12, day within the month's length for
\* that year) and gregorianToJulian of that date returns jdn.
C4_GregorianInverse ==
    (Called("julianToGregorian") /\ args[1] >= 0)
        => /\ Returned(ret)
           /\ ValidGregorian(ret.v.year, ret.v.month, ret.v.day)
           /\ gregorianToJulian(ret.v.year, ret.v.month, ret.v.day)
                = Return(args[1])

\* C4 witness: julianToGregorian has returned the leap day 29 February 2000.
C4_Witness ==
    /\ Called("julianToGregorian")
    /\ Returned(ret)
    /\ ret.v = YMD(2000, 2, 29)

\* a is earlier than b in (year, month, day) order
Earlier(a, b) ==
    \/ a[1] < b[1]
    \/ a[1] = b[1] /\ a[2] < b[2]
    \/ a[1] = b[1] /\ a[2] = b[2] /\ a[3] < b[3]

\* C5: for any two valid Jalali dates a and b with a earlier than b in
\* (year, month, day) order, jalaliToJulian(a) < jalaliToJulian(b).
C5_JdnStrictlyMonotonic ==
    (Called("jalaliToJulian") /\ ValidJalali(args[1], args[2], args[3]))
        => /\ Returned(ret)
           /\ \A b \in JalaliInputs :
                (ValidJalali(b[1], b[2], b[3]) /\ Earlier(args, b))
                    => ret.v < jalaliToJulian(b[1], b[2], b[3]).v

\* C6: for every jdn >= JALALI_EPOCH for which julianToJalali returns, the
\* result is a valid Jalali date: year >= 1, month in 1..12, day in 1..L with
\* L = 31 for months 1-6, 30 for months 7-11, 29 or 30 for month 12 by
\* isJalaliLeapYear(year).
C6_JulianToJalaliValid ==
    (Called("julianToJalali") /\ args[1] >= JALALI_EPOCH /\ Returned(ret))
        => ValidJalali(ret.v.year, ret.v.month, ret.v.day)

\* C7: jalaliToJulian throws whenever the day exceeds the length of the
\* given Jalali month; in particular jalaliToJulian(y,12,30) returns if and
\* only if isJalaliLeapYear(y) is true.
C7_DayBeyondMonthThrows ==
    (Called("jalaliToJulian") /\ args[1] >= 1 /\ args[2] \in 1..12)
        => /\ (args[3] > getDaysInMonth(args[1], args[2])) => Threw(ret)
           /\ (args[2] = 12 /\ args[3] = 30)
                 => (Returned(ret) <=> isJalaliLeapYear(args[1]).v)

\* C8: gregorianToJulian throws whenever month is outside 1..12 or day is
\* outside 1..daysInMonth(year, month); an out-of-range day is never mapped
\* to the JDN of a day in a later month.
C8_GregorianInvalidThrows ==
    /\ (Called("gregorianToJulian")
          /\ ~ValidGregorian(args[1], args[2], args[3]))
          => Threw(ret)
    /\ (Called("gregorianToJulian") /\ args[2] \in 1..11
          /\ args[3] > GregorianDaysInMonth(args[1], args[2]))
          => \A d \in 1..31 : ret # gregorianToJulian(args[1], args[2] + 1, d)

(***************************************************************************)
(* PROPERTIES OF THE JalaliDate CLASS                                      *)
(***************************************************************************)

\* C9: new JalaliDate(jy, jm, jd) with (jy,jm,jd) a valid Jalali date
\* completes without error, and toJalali() on the result returns
\* {year: jy, month: jm, day: jd}.
C9_ConstructFromComponents ==
    (fn = "new(jy,jm,jd)" /\ ValidJalali(args[1], args[2], args[3]))
        => /\ Returned(ret)
           /\ toJalali(self) = YMD(args[1], args[2], args[3])

\* C10: a call of setFullYear, setMonth or setDate leaves the Jalali fields
\* (toJalali) and the Gregorian date (toGregorian) observable on the object
\* as they were before the call.
C10_SettersDoNotMutate ==
    [][(fn' \in Setters /\ calls' = calls + 1)
          => /\ toJalali(self') = toJalali(self)
             /\ toGregorian(self') = toGregorian(self)]_vars

Constructors ==
    {"new()", "new(Date)", "new(number)", "new(JalaliDate)", "new(string)",
     "new(jy,jm,jd)"}

\* the two projections of the object o denote the same day
ProjectionsAgree(o) ==
    LET f == DateFields(o.gDate, tz)
        a == jalaliToJulian(o.jDate.year, o.jDate.month, o.jDate.day)
        b == gregorianToJulian(f.year, f.month, f.day)
    IN  Returned(a) /\ Returned(b) /\ a.v = b.v

\* C11: in every JalaliDate obtained by a constructor form followed by
\* successful setter calls, jalaliToJulian of the stored Jalali fields equals
\* gregorianToJulian of the stored Gregorian year/month/day.  The states
\* examined are those right after a constructor that returned and those
\* after a setter that returned as the second call (the first call is then
\* the construction of the object).
C11_ProjectionsAgree ==
    (Returned(ret) /\ (fn \in Constructors \/ (fn \in Setters /\ calls = 2)))
        => ProjectionsAgree(self)

\* C12: after setMonth on a valid date whose day exceeds the length of the
\* target month, the call has returned, the month is the intended one and
\* the day equals the target month's length (Jalali (1403,6,31) moved to
\* month 7 gives month 7 day 30).
C12_SetMonthClampsDay ==
    [][(/\ fn' = "setMonth"
        /\ calls' = calls + 1
        /\ ValidJalali(self.jDate.year, self.jDate.month, self.jDate.day)
        /\ args'[1] + 1 \in 1..12
        /\ self.jDate.day > getDaysInMonth(self.jDate.year, args'[1] + 1))
          => /\ Returned(ret')
             /\ toJalali(self').month = args'[1] + 1
             /\ toJalali(self').day
                  = getDaysInMonth(self.jDate.year, args'[1] + 1)]_vars

(***************************************************************************)
(* THE CALENDAR WIDGET'S CONVERTERS AND THE DATE KEYS                      *)
(*                                                                         *)
(* A JavaScript string is a sequence of one-character strings.             *)
(***************************************************************************)
DigitChars == <<"0", "1", "2", "3", "4", "5", "6", "7", "8", "9">>

IsDigit(c) == \E i \in 1..10 : DigitChars[i] = c
DigitValue(c) == (CHOOSE i \in 1..10 : DigitChars[i] = c) - 1

\* String(n) for an integer n
RECURSIVE NatToString(_)
NatToString(n) ==
    IF n < 10
    THEN <<DigitChars[n + 1]>>
    ELSE NatToString(n \div 10) \o <<DigitChars[(n % 10) + 1]>>

StringOf(n) == IF n < 0 THEN <<"-">> \o NatToString(0 - n) ELSE NatToString(n)

\* s.padStart(len, ch)
RECURSIVE padStart(_, _, _)
padStart(s, len, ch) ==
    IF Len(s) >= len THEN s ELSE padStart(<<ch>> \o s, len, ch)

(***************************************************************************)
(* JalaliCalendar.gregorianToJalali(gy, gm, gd) of the calendar module.    *)
(***************************************************************************)
g_d_m == <<0, 31, 59, 90, 120, 151, 181, 212, 243, 273, 304, 334>>

JalaliCalendar_gregorianToJalali(gy0, gm, gd) ==
    LET jy0 == IF gy0 <= 1600 THEN 0 ELSE 979
        gy == gy0 - (IF gy0 <= 1600 THEN 621 ELSE 1600)
        gy2 == IF gm > 2 THEN gy + 1 ELSE gy
        days0 == (365 * gy) + ((gy2 + 3) \div 4) - ((gy2 + 99) \div 100)
                   + ((gy2 + 399) \div 400) - 80 + gd + g_d_m[gm]
        jy1 == jy0 + (33 * (days0 \div 12053))
        days1 == JsMod(days0, 12053)
        jy2 == jy1 + (4 * (days1 \div 1461))
        days2 == JsMod(days1, 1461)
        jy == IF days2 > 365 THEN jy2 + ((days2 - 1) \div 365) ELSE jy2
        days == IF days2 > 365 THEN JsMod(days2 - 1, 365) ELSE days2
    IN  IF days < 186
        THEN [jy |-> jy, jm |-> 1 + (days \div 31), jd |-> 1 + JsMod(days, 31)]
        ELSE [jy |-> jy, jm |-> 7 + ((days - 186) \div 30),
              jd |-> 1 + JsMod(days - 186, 30)]

\* JalaliCalendar.isGregorianLeapYear(year)
isGregorianLeapYear(year) ==
    (JsMod(year, 4) = 0 /\ JsMod(year, 100) # 0) \/ JsMod(year, 400) = 0

\* the month loop with days > sal_a[gm] as its test: the first day of a month
\* is left in the month before
RECURSIVE MonthLoopStrict(_, _, _)
MonthLoopStrict(sal_a, gm, days) ==
    IF gm < 13 /\ days > sal_a[gm + 1]
    THEN MonthLoopStrict(sal_a, gm + 1, days - sal_a[gm + 1])
    ELSE [gm |-> gm, days |-> days]

\* the month loop of jalaliToGregorian:
\*     for (gm = 0; gm < 13 && days >= sal_a[gm]; gm++) days -= sal_a[gm];
\* sal_a is indexed from 1 here, gm counts from 0 as in the source
RECURSIVE MonthLoop(_, _, _)
MonthLoop(sal_a, gm, days) ==
    IF gm < 13 /\ days >= sal_a[gm + 1]
    THEN MonthLoop(sal_a, gm + 1, days - sal_a[gm + 1])
    ELSE [gm |-> gm, days |-> days]

(***************************************************************************)
(* JalaliCalendar.jalaliToGregorian(jy, jm, jd) of the calendar module.    *)
(***************************************************************************)
JalaliCalendar_jalaliToGregorian(jy0, jm, jd) ==
    LET gy0 == IF jy0 <= 979 THEN 621 ELSE 1600
        jy == jy0 - (IF jy0 <= 979 THEN 0 ELSE 979)
        d0 == (365 * jy) + ((jy \div 33) * 8) + ((JsMod(jy, 33) + 3) \div 4)
                + 78 + jd
        d1 == IF jm < 7 THEN d0 + ((jm - 1) * 31)
                        ELSE d0 + ((jm - 7) * 30) + 186
        gy1 == gy0 + (400 * (d1 \div 146097))
        d2 == JsMod(d1, 146097)
        \* if (days > 36524) { gy += 100 * floor(--days / 36524);
        \*                     days %= 36524; if (days >= 365) days++; }
        gy2 == IF d2 > 36524 THEN gy1 + (100 * ((d2 - 1) \div 36524)) ELSE gy1
        d3r == JsMod(d2 - 1, 36524)
        d3 == IF d2 > 36524 THEN (IF d3r >= 365 THEN d3r + 1 ELSE d3r) ELSE d2
        gy3 == gy2 + (4 * (d3 \div 1461))
        d4 == JsMod(d3, 1461)
        gy == IF d4 > 365 THEN gy3 + ((d4 - 1) \div 365) ELSE gy3
        d5 == IF d4 > 365 THEN JsMod(d4 - 1, 365) ELSE d4
        sal_a == <<0, 31, IF isGregorianLeapYear(gy) THEN 29 ELSE 28,
                   31, 30, 31, 30, 31, 31, 30, 31, 30, 31>>
        r == MonthLoop(sal_a, 0, d5)
    IN  [gy |-> gy, gm |-> r.gm, gd |-> r.days + 1]

(***************************************************************************)
(* Calendar.formatDateString(year, month, day) of the calendar module.     *)
(***************************************************************************)
formatDateString(year, month, day) ==
    padStart(StringOf(year), 4, "0") \o <<"-">>
      \o padStart(StringOf(month), 2, "0") \o <<"-">>
      \o padStart(StringOf(day), 2, "0")

(***************************************************************************)
(* The date key Calendar.selectDate computes for the day cell              *)
(* (year, month, day) of a calendar of the given type.                     *)
(***************************************************************************)
selectDateKey(type, year, month, day) ==
    IF type = "jalali"
    THEN LET greg == JalaliCalendar_jalaliToGregorian(year, month, day)
         IN  formatDateString(greg.gy, greg.gm, greg.gd)
    ELSE formatDateString(year, month, day)

(***************************************************************************)
(* JavaScript numbers that may be NaN (undefined converts to NaN where a   *)
(* number is wanted), and Dates that may be invalid.                       *)
(***************************************************************************)
Num(n) == [nan |-> FALSE, n |-> n]
NaN == [nan |-> TRUE, n |-> 0]

InvalidDate == [valid |-> FALSE, t |-> 0]
ValidDate(t) == [valid |-> TRUE, t |-> t]

\* the value of a string of digits
RECURSIVE DigitsValue(_)
DigitsValue(s) ==
    IF s = <<>> THEN 0
    ELSE (10 * DigitsValue(SubSeq(s, 1, Len(s) - 1))) + DigitValue(s[Len(s)])

AllDigits(s) == \A i \in 1..Len(s) : IsDigit(s[i])

\* Number(s) for a string of the model's alphabet (digits, letters, no sign
\* or blank): the empty string is 0, a string of digits its value, any other
\* string NaN
NumberOf(s) ==
    IF s = <<>> THEN Num(0)
    ELSE IF AllDigits(s) THEN Num(DigitsValue(s))
    ELSE NaN

\* parseInt(x) of an integer x: the integer read back from String(x)
parseInt(x) ==
    LET str == StringOf(x)
        neg == str[1] = "-"
        digits == IF neg THEN Tail(str) ELSE str
    IN  IF neg THEN 0 - DigitsValue(digits) ELSE DigitsValue(digits)

\* s.split("-"): cur is the piece being read, acc the pieces read so far
RECURSIVE SplitFrom(_, _, _, _)
SplitFrom(s, i, cur, acc) ==
    IF i > Len(s) THEN Append(acc, cur)
    ELSE IF s[i] = "-" THEN SplitFrom(s, i + 1, <<>>, Append(acc, cur))
    ELSE SplitFrom(s, i + 1, Append(cur, s[i]), acc)

split(s) == SplitFrom(s, 1, <<>>, <<>>)

\* new Date(year, monthIndex, day) for numbers that may be NaN: months and
\* days outside their range carry over into the next months and years; a
\* year of 0..99 means 1900 + year; a NaN argument gives an invalid Date
MakeDate(year, monthIndex, day, zone) ==
    IF year.nan \/ monthIndex.nan \/ day.nan
    THEN InvalidDate
    ELSE LET y == IF year.n \in 0..99 THEN 1900 + year.n ELSE year.n
             ym == y + (monthIndex.n \div 12)
             mn == monthIndex.n % 12
         IN  ValidDate(((DaysFromCivil(ym, mn + 1, 1) + day.n - 1 - UnixEpochDay)
                          * MinutesPerDay) - zone)

(***************************************************************************)
(* The date-key generators.  Those of the application and of Utils take a  *)
(* Date and read its local fields; the fields of an invalid Date are NaN.  *)
(***************************************************************************)
NaNString == <<"N", "a", "N">>

\* DastyarApp.formatDateKey(date): `${year}${month}-${day}`
DastyarApp_formatDateKey(date, zone) ==
    IF ~date.valid
    THEN NaNString \o NaNString \o <<"-">> \o NaNString
    ELSE LET f == DateFields(date.t, zone)
         IN  StringOf(f.year) \o padStart(StringOf(f.month), 2, "0") \o <<"-">>
               \o padStart(StringOf(f.day), 2, "0")

\* Calendar.formatDateKey(year, month, day) of calendar.js
Calendar_formatDateKey(year, month, day) ==
    StringOf(year) \o <<"-">> \o StringOf(parseInt(month)) \o <<"-">>
      \o StringOf(parseInt(day))

\* Utils.getDateKey(date): the empty string for an invalid Date
Utils_getDateKey(date, zone) ==
    IF ~date.valid
    THEN <<>>
    ELSE LET f == DateFields(date.t, zone)
         IN  StringOf(f.year) \o <<"-">> \o padStart(StringOf(f.month), 2, "0")
               \o <<"-">> \o padStart(StringOf(f.day), 2, "0")

(***************************************************************************)
(* Notes.editDateNote(dateKey, noteId):                                    *)
(*     const [year, month, day] = dateKey.split('-').map(Number);          *)
(*     const date = new Date(year, month - 1, day);                        *)
(*     this.openDateNoteModal(date, noteId);                               *)
(* openDateNoteModal stores the date as currentEditingDate and shows the   *)
(* modal; an invalid Date is displayed as the text 'Invalid Date' and      *)
(* raises no error.                                                        *)
(***************************************************************************)
Notes_editDateNote(dateKey, zone) ==
    LET parts == split(dateKey)
        field(i) == IF i <= Len(parts) THEN NumberOf(parts[i]) ELSE NaN
        month == field(2)
        monthIndex == IF month.nan THEN NaN ELSE Num(month.n - 1)
    IN  Return([modal |-> "open",
                date |-> MakeDate(field(1), monthIndex, field(3), zone)])

(***************************************************************************)
(* DastyarApp.showDateNoteModal(dateKey): the key is stored as the         *)
(* modal's current date, new Date(dateKey) is formatted for the title and  *)
(* the modal is made active.  formatDate calls this.toJalali in Jalali     *)
(* mode when the JalaliDate library is loaded; DastyarApp has no method of *)
(* that name and the call raises a TypeError, whatever the key.  In        *)
(* Gregorian mode toLocaleDateString raises nothing, for an invalid Date   *)
(* either.                                                                 *)
(***************************************************************************)
DastyarApp_showDateNoteModal(dateKey, calendarType, library) ==
    IF calendarType = "jalali" /\ library
    THEN Throw
    ELSE Return([modal |-> "open", key |-> dateKey])

(***************************************************************************)
(* The calendar widget of calendar.js converts with the JalaliDate class   *)
(* when window.JalaliDate is set (library) and catches what it throws.     *)
(***************************************************************************)
\* Calendar.gregorianToJalali(date) for the Date of time value t
Calendar_gregorianToJalali(t, library, zone) ==
    LET jd == CacheJalali(t, zone)
    IN  IF library /\ Returned(jd)
        THEN Return([year |-> jd.v.jDate.year,
                     month |-> (jd.v.jDate.month - 1) + 1,
                     day |-> jd.v.jDate.day])
        ELSE Return([year |-> 0, month |-> 0, day |-> 0])

\* Calendar.jalaliToGregorian(jalali), called at the instant now
Calendar_jalaliToGregorian(year, month, day, library, now, zone) ==
    LET jd == ConstructFromComponents(year, month - 1, day, zone)
    IN  IF library /\ Returned(jd)
        THEN Return(toGregorian(jd.v))
        ELSE Return(now)

(***************************************************************************)
(* Calls of the calendar widget's converters and of the date-key           *)
(* functions: the arguments are drawn initially, the call computes the     *)
(* result.                                                                 *)
(***************************************************************************)
MinKeyYear == 1800
MaxKeyYear == 2200

\* the valid Gregorian dates of the checked years
KeyDayInputs ==
    { a \in (MinKeyYear..MaxKeyYear) \X (1..12) \X (1..31) :
          a[3] <= GregorianDaysInMonth(a[1], a[2]) }

\* Jalali day cells: the days 1..31 of the months of the sample years
JalaliCellInputs ==
    { <<y, m, d>> : y \in MinModernJYear..MaxModernJYear, m \in 1..12, d \in 1..31 }

\* the days whose keys are generated: every day of two years, and days of
\* years of fewer than four digits
KeySampleDays ==
    { a \in ({50, 99, 100, 999, 2024, 2025} \X (1..12) \X (1..31)) :
          /\ a[3] <= GregorianDaysInMonth(a[1], a[2])
          /\ (a[1] < 2024 => a[2] \in {1, 6, 12} /\ a[3] \in {1, 15, 30}) }

\* the Dates given to the generators: the sample days in local time zone 0,
\* at the sample minutes, and an invalid Date
KeyDateInputs ==
    { ValidDate(((DaysFromCivil(a[1], a[2], a[3]) - UnixEpochDay) * MinutesPerDay) + mi) :
          a \in KeySampleDays, mi \in SampleMinutes }
      \cup {InvalidDate}

\* the keys given to the decoders
KeyStringInputs ==
    { <<"2", "0", "2", "4", "-", "0", "3", "-", "2", "0">>,
      <<"2", "0", "2", "4", "-", "3", "-", "2", "0">>,
      <<"2", "0", "2", "4", "-", "0", "2", "-", "2", "9">>,
      <<"2", "0", "2", "4", "-", "0", "2", "-", "3", "0">>,
      <<"2", "0", "2", "3", "-", "0", "2", "-", "2", "9">>,
      <<"2", "0", "2", "4", "-", "1", "3", "-", "0", "1">>,
      <<"2", "0", "2", "4", "-", "0", "0", "-", "1", "0">>,
      <<"2", "0", "2", "4", "-", "0", "4", "-", "3", "1">>,
      <<"2", "0", "2", "4", "-", "0", "4", "-", "0", "0">>,
      <<"2", "0", "2", "4", "0", "3", "-", "2", "0">>,
      <<"2", "0", "2", "4", "-", "0", "3">>,
      <<"2", "0", "2", "4", "-", "0", "3", "-", "2", "0", "-", "0", "1">>,
      <<"2", "0", "2", "4", "-", "-", "2", "0">>,
      <<"2", "0", "2", "4", "-", "0", "3", "-", "x", "y">>,
      <<"a", "b", "c">>,
      <<"5", "0", "-", "0", "6", "-", "1", "5">>,
      <<>> }

\* the instants at which the widget converts: 13:45 UTC of two days
NowInputs ==
    { ((DaysFromCivil(a[1], a[2], a[3]) - UnixEpochDay) * MinutesPerDay) + 825 :
          a \in { <<2024, 3, 20>>, <<2025, 10, 5>> } }

\* the Jalali day cells the widget renders
WidgetCellInputs ==
    { <<y, m, d>> : y \in {1402, 1403}, m \in {1, 7, 12}, d \in {1, 15, 29, 30} }

InitKeys ==
    /\ ret = Pending
    /\ self = NoObject
    /\ calls = 0
    /\ \/ fn = "JalaliCalendar.gregorianToJalali" /\ args \in KeyDayInputs /\ tz = 0
       \/ fn = "JalaliCalendar.jalaliToGregorian" /\ args \in JalaliCellInputs /\ tz = 0
       \/ /\ fn \in {"DastyarApp.formatDateKey", "Utils.getDateKey"}
          /\ args \in { <<d>> : d \in KeyDateInputs }
          /\ tz \in TimeZones
       \/ /\ fn \in {"Calendar.formatDateKey", "Calendar.formatDateString"}
          /\ args \in KeySampleDays
          /\ tz = 0
       \/ /\ fn = "Notes.editDateNote"
          /\ args \in { <<k>> : k \in KeyStringInputs }
          /\ tz \in TimeZones
       \/ /\ fn = "DastyarApp.showDateNoteModal"
          /\ args \in KeyStringInputs \X {"gregorian", "jalali"} \X BOOLEAN
          /\ tz = 0
       \/ /\ fn = "Calendar.gregorianToJalali"
          /\ args \in { d.t : d \in KeyDateInputs \ {InvalidDate} } \X BOOLEAN
          /\ tz \in TimeZones
       \/ /\ fn = "Calendar.jalaliToGregorian"
          /\ args \in { <<c[1], c[2], c[3], l, n>> :
                           c \in WidgetCellInputs, l \in BOOLEAN, n \in NowInputs }
          /\ tz \in TimeZones

CallJalaliCalendarGregorianToJalali ==
    /\ fn = "JalaliCalendar.gregorianToJalali"
    /\ ret = Pending
    /\ ret' = Return(JalaliCalendar_gregorianToJalali(args[1], args[2], args[3]))
    /\ UNCHANGED <<fn, args, self, tz, calls>>

CallJalaliCalendarJalaliToGregorian ==
    /\ fn = "JalaliCalendar.jalaliToGregorian"
    /\ ret = Pending
    /\ ret' = Return(JalaliCalendar_jalaliToGregorian(args[1], args[2], args[3]))
    /\ UNCHANGED <<fn, args, self, tz, calls>>

CallDastyarAppFormatDateKey ==
    /\ fn = "DastyarApp.formatDateKey"
    /\ ret = Pending
    /\ ret' = Return(DastyarApp_formatDateKey(args[1], tz))
    /\ UNCHANGED <<fn, args, self, tz, calls>>

CallUtilsGetDateKey ==
    /\ fn = "Utils.getDateKey"
    /\ ret = Pending
    /\ ret' = Return(Utils_getDateKey(args[1], tz))
    /\ UNCHANGED <<fn, args, self, tz, calls>>

CallCalendarFormatDateKey ==
    /\ fn = "Calendar.formatDateKey"
    /\ ret = Pending
    /\ ret' = Return(Calendar_formatDateKey(args[1], args[2], args[3]))
    /\ UNCHANGED <<fn, args, self, tz, calls>>

CallCalendarFormatDateString ==
    /\ fn = "Calendar.formatDateString"
    /\ ret = Pending
    /\ ret' = Return(formatDateString(args[1], args[2], args[3]))
    /\ UNCHANGED <<fn, args, self, tz, calls>>

CallNotesEditDateNote ==
    /\ fn = "Notes.editDateNote"
    /\ ret = Pending
    /\ ret' = Notes_editDateNote(args[1], tz)
    /\ UNCHANGED <<fn, args, self, tz, calls>>

CallDastyarAppShowDateNoteModal ==
    /\ fn = "DastyarApp.showDateNoteModal"
    /\ ret = Pending
    /\ ret' = DastyarApp_showDateNoteModal(args[1], args[2], args[3])
    /\ UNCHANGED <<fn, args, self, tz, calls>>

CallCalendarGregorianToJalali ==
    /\ fn = "Calendar.gregorianToJalali"
    /\ ret = Pending
    /\ ret' = Calendar_gregorianToJalali(args[1], args[2], tz)
    /\ UNCHANGED <<fn, args, self, tz, calls>>

CallCalendarJalaliToGregorian ==
    /\ fn = "Calendar.jalaliToGregorian"
    /\ ret = Pending
    /\ ret' = Calendar_jalaliToGregorian(args[1], args[2], args[3], args[4], args[5], tz)
    /\ UNCHANGED <<fn, args, self, tz, calls>>

NextKeys ==
    \/ CallJalaliCalendarGregorianToJalali
    \/ CallJalaliCalendarJalaliToGregorian
    \/ CallDastyarAppFormatDateKey
    \/ CallUtilsGetDateKey
    \/ CallCalendarFormatDateKey
    \/ CallCalendarFormatDateString
    \/ CallNotesEditDateNote
    \/ CallDastyarAppShowDateNoteModal
    \/ CallCalendarGregorianToJalali
    \/ CallCalendarJalaliToGregorian

SpecKeys == InitKeys /\ [][NextKeys]_vars

(***************************************************************************)
(* PROPERTIES OF THE CALENDAR WIDGET'S CONVERTERS AND OF THE DATE KEYS     *)
(***************************************************************************)

\* C13: for every Gregorian day g of the checked years the key produced in
\* Gregorian view, formatDateString(g), equals the key produced in Jalali
\* view for the same day, formatDateString(jalaliToGregorian(
\* gregorianToJalali(g))): JalaliCalendar.jalaliToGregorian(
\* gregorianToJalali(g)) = g.
C13_DateKeyViewIndependent ==
    (Called("JalaliCalendar.gregorianToJalali")
       /\ ValidGregorian(args[1], args[2], args[3]))
        => /\ Returned(ret)
           /\ JalaliCalendar_jalaliToGregorian(ret.v.jy, ret.v.jm, ret.v.jd)
                = [gy |-> args[1], gm |-> args[2], gd |-> args[3]]
           /\ selectDateKey("jalali", ret.v.jy, ret.v.jm, ret.v.jd)
                = selectDateKey("gregorian", args[1], args[2], args[3])

\* C13 witness: the Gregorian day 2024-03-20 has been converted to Jalali
\* 1403-01-01, whose key in Jalali view is "2024-03-20".
C13_Witness ==
    /\ Called("JalaliCalendar.gregorianToJalali")
    /\ args = <<2024, 3, 20>>
    /\ ret = Return([jy |-> 1403, jm |-> 1, jd |-> 1])
    /\ selectDateKey("jalali", 1403, 1, 1)
         = <<"2", "0", "2", "4", "-", "0", "3", "-", "2", "0">>

\* The key the specification prescribes for the Gregorian date (y, m, d):
\* the year in at least 4 digits, the month and the day in 2 digits.
ZeroPadded(n, width) ==
    LET str == NatToString(n)
    IN  [i \in 1..(width - Len(str)) |-> "0"] \o str

CanonicalKey(y, m, d) ==
    ZeroPadded(y, 4) \o <<"-">> \o ZeroPadded(m, 2) \o <<"-">> \o ZeroPadded(d, 2)

CanonicalKeyOfDate(date, zone) ==
    LET f == DateFields(date.t, zone)
    IN  CanonicalKey(f.year, f.month, f.day)

\* C14: every date-key generator returns the canonical key of the Gregorian
\* date it is given: the year in at least 4 digits, "-", the month in 2
\* digits, "-", the day in 2 digits.
C14_GeneratorsCanonical ==
    /\ (Called("DastyarApp.formatDateKey") /\ args[1].valid)
           => ret = Return(CanonicalKeyOfDate(args[1], tz))
    /\ (Called("Utils.getDateKey") /\ args[1].valid)
           => ret = Return(CanonicalKeyOfDate(args[1], tz))
    /\ Called("Calendar.formatDateKey")
           => ret = Return(CanonicalKey(args[1], args[2], args[3]))
    /\ Called("Calendar.formatDateString")
           => ret = Return(CanonicalKey(args[1], args[2], args[3]))

\* C15: for every valid Date d, Notes.editDateNote applied to the key
\* Utils.getDateKey(d) opens a valid date of the same calendar day as d.
C15_KeyRoundTrip ==
    (Called("Utils.getDateKey") /\ args[1].valid)
        => LET decoded == Notes_editDateNote(ret.v, tz)
           IN  /\ Returned(decoded)
               /\ decoded.v.date.valid
               /\ DateFields(decoded.v.date.t, tz) = DateFields(args[1].t, tz)

\* A key of exactly three dash-separated integer fields that form a valid
\* Gregorian date.
WellFormedKey(key) ==
    LET parts == split(key)
    IN  /\ Len(parts) = 3
        /\ \A i \in 1..3 : parts[i] # <<>> /\ AllDigits(parts[i])
        /\ ValidGregorian(DigitsValue(parts[1]), DigitsValue(parts[2]),
                          DigitsValue(parts[3]))

\* C16: a decoder given a key that is not three dash-separated integer
\* fields of a valid Gregorian date fails with an error and opens no date.
C16_MalformedKeyFails ==
    (/\ Called("Notes.editDateNote") \/ Called("DastyarApp.showDateNoteModal")
     /\ ~WellFormedKey(args[1]))
        => ret = Throw

\* C17: the widget's conversions never return a default: jalaliToGregorian
\* does not return the current instant and gregorianToJalali does not
\* return the placeholder {0, 0, 0} when the JalaliDate conversion throws or
\* the library is not loaded.
C17_NoDefaultDate ==
    /\ (/\ Called("Calendar.jalaliToGregorian")
        /\ \/ ~args[4]
           \/ Threw(ConstructFromComponents(args[1], args[2] - 1, args[3], tz)))
           => ret # Return(args[5])
    /\ (/\ Called("Calendar.gregorianToJalali")
        /\ ~args[2] \/ Threw(CacheJalali(args[1], tz)))
           => ret # Return([year |-> 0, month |-> 0, day |-> 0])

(***************************************************************************)
(* PROPERTIES OF THE LEAP RULES                                            *)
(***************************************************************************)

\* C18: for every Jalali year y in 1..3000 the leap rule of the calendar
\* module and the leap rule of the calendar widget return what the
\* break-table isJalaliLeapYear(y) returns.
C18_SingleLeapRule ==
    (/\ Called("JalaliCalendar.isJalaliLeapYear") \/ Called("Calendar.isJalaliLeapYear")
     /\ args[1] \in 1..3000)
        => ret = isJalaliLeapYear(args[1])

\* The break-table rule as the specification words it, for a year that has
\* a break interval [start, next) in the table.
BreakSet == { breaks[i] : i \in 1..Len(breaks) }
HasInterval(jy) == (\E b \in BreakSet : b <= jy) /\ (\E b \in BreakSet : b > jy)
IntervalStart(jy) == CHOOSE b \in BreakSet : b <= jy /\ \A c \in BreakSet : c <= jy => c <= b
IntervalNext(jy) == CHOOSE b \in BreakSet : b > jy /\ \A c \in BreakSet : c > jy => b <= c

BreakTableLeap(jy) ==
    LET start == IntervalStart(jy)
        len == IntervalNext(jy) - start
        n0 == jy - start
        n == IF len - n0 < 6 THEN n0 - len + (33 * (len \div 33)) ELSE n0
        r == JsMod(JsMod(n + 1, 33) - 1, 4)
        factor == IF r = -1 THEN 4 ELSE r
    IN  factor = 0

\* C19: for every Jalali year jy >= 1 inside a break interval of the table,
\* isJalaliLeapYear(jy) returns the value of the break-table rule: n is the
\* offset in the interval, moved into the tail sub-cycle when fewer than 6
\* years of the interval remain, and the year is leap iff
\* ((n+1) mod 33 - 1) mod 4 = 0, a remainder of -1 counting as 4.
C19_BreakTableRule ==
    (Called("isJalaliLeapYear") /\ args[1] >= 1 /\ HasInterval(args[1]))
        => ret = Return(BreakTableLeap(args[1]))

\* C19 witness: the leap test has answered true for 1206, a year of the
\* last 5 years of its interval [1181, 1210), where n is moved into the tail
\* sub-cycle.
C19_Witness ==
    /\ Called("isJalaliLeapYear")
    /\ args = <<1206>>
    /\ IntervalStart(1206) = 1181
    /\ IntervalNext(1206) = 1210
    /\ ret = Return(TRUE)

\* C20: isJalaliLeapYear fails for every year below 1 and for every number
\* that is not an integer, and returns a boolean for every integer year
\* >= 1.
C20_LeapYearDomain ==
    /\ Called("isJalaliLeapYear")
           => IF args[1] < 1 THEN ret = Throw
              ELSE Returned(ret) /\ ret.v \in BOOLEAN
    /\ Called("JalaliDate.isLeapYear")
           => IF args[1].fraction \/ args[1].n < 1 THEN ret = Throw
              ELSE Returned(ret) /\ ret.v \in BOOLEAN

\* C20 witness: the leap test has thrown for the year 0.
C20_Witness ==
    /\ Called("isJalaliLeapYear")
    /\ args = <<0>>
    /\ ret = Throw

(***************************************************************************)
(* THE DAY OF THE WEEK AND THE WEEKEND FLAGS                               *)
(***************************************************************************)
\* Date.prototype.getDay(): the weekday of the local day of a Date, 0 for
\* Sunday; 1 January 1970 was a Thursday (4)
DateGetDay(t, zone) == ((((t + zone) \div MinutesPerDay) % 7) + 4) % 7

\* JalaliDate.prototype.getDay()
JalaliDate_getDay(o, zone) ==
    LET jsDay == DateGetDay(o.gDate, zone)
    IN  JsMod(jsDay + 1, 7)

\* new JalaliDate(date).getDay() for the Date of time value t
getDayOfNewJalaliDate(t, zone) ==
    LET o == CacheJalali(t, zone)
    IN  IF Threw(o) THEN Throw ELSE Return(JalaliDate_getDay(o.v, zone))

\* getDayOfWeek returning the weekday of the Date unshifted (0 for Sunday)
GregorianCalendar_getDayOfWeekSundayFirst(year, month, day, zone) ==
    LET date == MakeDate(Num(year), Num(month - 1), Num(day), zone)
        dayOfWeek == DateGetDay(date.t, zone)
    IN  dayOfWeek

\* GregorianCalendar.getDayOfWeek(year, month, day)
GregorianCalendar_getDayOfWeek(year, month, day, zone) ==
    LET date == MakeDate(Num(year), Num(month - 1), Num(day), zone)
        dayOfWeek == DateGetDay(date.t, zone)
    IN  JsMod(dayOfWeek + 1, 7)

\* JalaliCalendar.getJalaliDayOfWeek(jy, jm, jd)
JalaliCalendar_getJalaliDayOfWeek(jy, jm, jd, zone) ==
    LET greg == JalaliCalendar_jalaliToGregorian(jy, jm, jd)
        date == MakeDate(Num(greg.gy), Num(greg.gm - 1), Num(greg.gd), zone)
        dayOfWeek == DateGetDay(date.t, zone)
    IN  JsMod(dayOfWeek + 1, 7)

\* Calendar.isWeekend(year, month, day) of the calendar module, for a
\* calendar of the given type
Calendar_isWeekend(type, year, month, day, zone) ==
    IF type = "jalali"
    THEN JalaliCalendar_getJalaliDayOfWeek(year, month, day, zone) = 6
    ELSE LET dayOfWeek == GregorianCalendar_getDayOfWeek(year, month, day, zone)
         IN  dayOfWeek = 0 \/ dayOfWeek = 6

\* the isWeekend flag Calendar.renderGregorianCalendar of calendar.js gives
\* the cell of the day (year, month index, day) of the displayed month
renderGregorianCalendar_isWeekend(year, month, day, zone) ==
    LET currentDayOfWeek == DateGetDay(MakeDate(Num(year), Num(month), Num(day), zone).t, zone)
    IN  currentDayOfWeek = 5

\* Utils.isWeekend(date)
Utils_isWeekend(date, zone) ==
    IF ~date.valid
    THEN FALSE
    ELSE LET day == DateGetDay(date.t, zone)
         IN  day = 5 \/ day = 6

(***************************************************************************)
(* Calls of the weekday functions and of the weekend flags.                *)
(***************************************************************************)
WeekYears == {1900, 2000, 2024, 2025}

\* the valid Gregorian dates of the sample years
WeekDayInputs ==
    { a \in (WeekYears \X (1..12) \X (1..31)) : a[3] <= GregorianDaysInMonth(a[1], a[2]) }

\* the Jalali dates of the same days
WeekJalaliInputs ==
    { LET j == JalaliCalendar_gregorianToJalali(a[1], a[2], a[3])
      IN  <<j.jy, j.jm, j.jd>> : a \in WeekDayInputs }

\* Dates of the same days, at the sample minutes of the day, UTC
WeekInstants ==
    { ((DaysFromCivil(a[1], a[2], a[3]) - UnixEpochDay) * MinutesPerDay) + mi :
          a \in WeekDayInputs, mi \in SampleMinutes }

InitWeek ==
    /\ ret = Pending
    /\ self = NoObject
    /\ calls = 0
    /\ tz \in TimeZones
    /\ \/ fn = "JalaliDate.getDay" /\ args \in { <<t>> : t \in WeekInstants }
       \/ fn = "GregorianCalendar.getDayOfWeek" /\ args \in WeekDayInputs
       \/ fn = "JalaliCalendar.getJalaliDayOfWeek" /\ args \in WeekJalaliInputs
       \/ /\ fn = "Calendar.isWeekend"
          /\ args \in { <<"gregorian", a[1], a[2], a[3]>> : a \in WeekDayInputs }
                        \cup { <<"jalali", a[1], a[2], a[3]>> : a \in WeekJalaliInputs }
       \/ /\ fn = "Calendar.renderGregorianCalendar.isWeekend"
          /\ args \in { <<a[1], a[2] - 1, a[3]>> : a \in WeekDayInputs }
       \/ /\ fn = "Utils.isWeekend"
          /\ args \in { <<ValidDate(t)>> : t \in WeekInstants } \cup { <<InvalidDate>> }

CallJalaliDateGetDay ==
    /\ fn = "JalaliDate.getDay"
    /\ ret = Pending
    /\ ret' = getDayOfNewJalaliDate(args[1], tz)
    /\ UNCHANGED <<fn, args, self, tz, calls>>

CallGregorianCalendarGetDayOfWeek ==
    /\ fn = "GregorianCalendar.getDayOfWeek"
    /\ ret = Pending
    /\ ret' = Return(GregorianCalendar_getDayOfWeek(args[1], args[2], args[3], tz))
    /\ UNCHANGED <<fn, args, self, tz, calls>>

CallJalaliCalendarGetJalaliDayOfWeek ==
    /\ fn = "JalaliCalendar.getJalaliDayOfWeek"
    /\ ret = Pending
    /\ ret' = Return(JalaliCalendar_getJalaliDayOfWeek(args[1], args[2], args[3], tz))
    /\ UNCHANGED <<fn, args, self, tz, calls>>

CallCalendarIsWeekend ==
    /\ fn = "Calendar.isWeekend"
    /\ ret = Pending
    /\ ret' = Return(Calendar_isWeekend(args[1], args[2], args[3], args[4], tz))
    /\ UNCHANGED <<fn, args, self, tz, calls>>

CallRenderGregorianCalendarIsWeekend ==
    /\ fn = "Calendar.renderGregorianCalendar.isWeekend"
    /\ ret = Pending
    /\ ret' = Return(renderGregorianCalendar_isWeekend(args[1], args[2], args[3], tz))
    /\ UNCHANGED <<fn, args, self, tz, calls>>

CallUtilsIsWeekend ==
    /\ fn = "Utils.isWeekend"
    /\ ret = Pending
    /\ ret' = Return(Utils_isWeekend(args[1], tz))
    /\ UNCHANGED <<fn, args, self, tz, calls>>

NextWeek ==
    \/ CallJalaliDateGetDay
    \/ CallGregorianCalendarGetDayOfWeek
    \/ CallJalaliCalendarGetJalaliDayOfWeek
    \/ CallCalendarIsWeekend
    \/ CallRenderGregorianCalendarIsWeekend
    \/ CallUtilsIsWeekend

SpecWeek == InitWeek /\ [][NextWeek]_vars

(***************************************************************************)
(* PROPERTIES OF THE WEEKDAYS AND OF THE WEEKEND FLAGS                     *)
(***************************************************************************)

\* The weekday of a day number, 0 for Sunday: day number 0 was a Monday.
WeekdayOfJdn(jdn) == (jdn + 1) % 7
IsSaturday(jdn) == WeekdayOfJdn(jdn) = 6
IsFriday(jdn) == WeekdayOfJdn(jdn) = 5

\* What the Saturday-first convention asks of the value v returned for the
\* day of number jdn.
SaturdayFirst(v, jdn) ==
    /\ v \in 0..6
    /\ v = 0 <=> IsSaturday(jdn)
    /\ v = 6 <=> IsFriday(jdn)
    /\ v = (WeekdayOfJdn(jdn) + 1) % 7

\* the day number of the Gregorian day of a Jalali date of the calendar module
JdnOfJalali(jy, jm, jd) ==
    LET greg == JalaliCalendar_jalaliToGregorian(jy, jm, jd)
    IN  DaysFromCivil(greg.gy, greg.gm, greg.gd)

\* the Gregorian and the Jalali date of the day after a day number
NextGregorian(jdn) == CivilFromDays(jdn + 1)
NextJalali(jdn) ==
    LET g == CivilFromDays(jdn + 1)
    IN  JalaliCalendar_gregorianToJalali(g.year, g.month, g.day)

C22_WeekendFlags ==
    /\ (Called("Calendar.isWeekend") /\ args[1] = "jalali")
           => (ret.v <=> IsFriday(JdnOfJalali(args[2], args[3], args[4])))
    /\ (Called("Calendar.isWeekend") /\ args[1] = "gregorian")
           => LET jdn == DaysFromCivil(args[2], args[3], args[4])
              IN  ret.v <=> (IsFriday(jdn) \/ IsSaturday(jdn))
    /\ Called("Calendar.renderGregorianCalendar.isWeekend")
           => LET jdn == DaysFromCivil(args[1], args[2] + 1, args[3])
              IN  ret.v <=> (IsFriday(jdn) \/ IsSaturday(jdn))
    /\ (Called("Utils.isWeekend") /\ args[1].valid)
           => LET f == DateFields(args[1].t, tz)
                  jdn == DaysFromCivil(f.year, f.month, f.day)
              IN  ret.v <=> (IsFriday(jdn) \/ IsSaturday(jdn))

(***************************************************************************)
(* THE Calendar CLASS OF THE CALENDAR MODULE                               *)
(*                                                                         *)
(* A Calendar holds its type, today (the local date of the Date taken at   *)
(* construction), the displayed Gregorian month (currentYear,              *)
(* currentMonth), the displayed Jalali month (jalaliYear, jalaliMonth) and *)
(* selectedDate, a date key or null (here the empty string).  Every        *)
(* operation ends with render(), which rebuilds the grid of 42 day cells   *)
(* from these fields: the grid is a function of the object.                *)
(***************************************************************************)
\* GregorianCalendar.getDaysInMonth(year, month)
GregorianCalendar_getDaysInMonth(year, month) ==
    LET daysInMonth == <<31, 28, 31, 30, 31, 30, 31, 31, 30, 31, 30, 31>>
    IN  IF month = 2 /\ isGregorianLeapYear(year) THEN 29 ELSE daysInMonth[month]

\* JalaliCalendar.getDaysInJalaliMonth(year, month)
JalaliCalendar_getDaysInJalaliMonth(year, month) ==
    IF month <= 6 THEN 31
    ELSE IF month <= 11 THEN 30
    ELSE IF JalaliCalendar_isJalaliLeapYear(year) THEN 30 ELSE 29

\* new Calendar({type}) constructed on the local date today
NewCalendar(type, today) ==
    LET jalaliToday == JalaliCalendar_gregorianToJalali(today.year, today.month, today.day)
    IN  [kind |-> "Calendar",
         type |-> type,
         today |-> today,
         currentYear |-> today.year,
         currentMonth |-> today.month,
         selectedDate |-> <<>>,
         jalaliYear |-> jalaliToday.jy,
         jalaliMonth |-> jalaliToday.jm]

\* Calendar.previousMonth()
previousMonth(cal) ==
    IF cal.type = "gregorian"
    THEN IF cal.currentMonth - 1 < 1
         THEN [cal EXCEPT !.currentMonth = 12, !.currentYear = cal.currentYear - 1]
         ELSE [cal EXCEPT !.currentMonth = cal.currentMonth - 1]
    ELSE IF cal.jalaliMonth - 1 < 1
         THEN [cal EXCEPT !.jalaliMonth = 12, !.jalaliYear = cal.jalaliYear - 1]
         ELSE [cal EXCEPT !.jalaliMonth = cal.jalaliMonth - 1]

\* Calendar.nextMonth()
nextMonth(cal) ==
    IF cal.type = "gregorian"
    THEN IF cal.currentMonth + 1 > 12
         THEN [cal EXCEPT !.currentMonth = 1, !.currentYear = cal.currentYear + 1]
         ELSE [cal EXCEPT !.currentMonth = cal.currentMonth + 1]
    ELSE IF cal.jalaliMonth + 1 > 12
         THEN [cal EXCEPT !.jalaliMonth = 1, !.jalaliYear = cal.jalaliYear + 1]
         ELSE [cal EXCEPT !.jalaliMonth = cal.jalaliMonth + 1]

\* Calendar.goToToday()
goToToday(cal) ==
    LET jalaliToday == JalaliCalendar_gregorianToJalali(
                           cal.today.year, cal.today.month, cal.today.day)
    IN  [cal EXCEPT !.currentYear = cal.today.year,
                    !.currentMonth = cal.today.month,
                    !.jalaliYear = jalaliToday.jy,
                    !.jalaliMonth = jalaliToday.jm]

\* Calendar.setType(type) for one of the two types
setType(cal, type) == [cal EXCEPT !.type = type]

\* Calendar.selectDate(year, month, day, isOtherMonth): a cell of another
\* month first navigates, then the call repeats with isOtherMonth = false
selectDate(cal, year, month, day, isOtherMonth) ==
    LET shown == IF cal.type = "gregorian" THEN cal.currentMonth ELSE cal.jalaliMonth
        moved == IF ~isOtherMonth THEN cal
                 ELSE IF month < shown \/ (month = 12 /\ shown = 1)
                      THEN previousMonth(cal)
                      ELSE nextMonth(cal)
    IN  [moved EXCEPT !.selectedDate = selectDateKey(cal.type, year, month, day)]

\* a day cell of the grid
DayCell(year, month, day, isOtherMonth, dateKey) ==
    [year |-> year, month |-> month, day |-> day,
     isOtherMonth |-> isOtherMonth, dateKey |-> dateKey]

\* the 42 day cells of renderGregorianCalendar(), in order
renderGregorianCalendar(cal, zone) ==
    LET daysInMonth == GregorianCalendar_getDaysInMonth(cal.currentYear, cal.currentMonth)
        firstDayOfWeek == GregorianCalendar_getDayOfWeek(cal.currentYear, cal.currentMonth, 1, zone)
        prevMonth == IF cal.currentMonth = 1 THEN 12 ELSE cal.currentMonth - 1
        prevYear == IF cal.currentMonth = 1 THEN cal.currentYear - 1 ELSE cal.currentYear
        prevMonthDays == GregorianCalendar_getDaysInMonth(prevYear, prevMonth)
        nextMonthOf == IF cal.currentMonth = 12 THEN 1 ELSE cal.currentMonth + 1
        nextYear == IF cal.currentMonth = 12 THEN cal.currentYear + 1 ELSE cal.currentYear
        cell(y, m, d, other) == DayCell(y, m, d, other, formatDateString(y, m, d))
    IN  [k \in 1..42 |->
            IF k <= firstDayOfWeek
            THEN cell(prevYear, prevMonth, prevMonthDays - (firstDayOfWeek - k), TRUE)
            ELSE IF k <= firstDayOfWeek + daysInMonth
            THEN cell(cal.currentYear, cal.currentMonth, k - firstDayOfWeek, FALSE)
            ELSE cell(nextYear, nextMonthOf, k - firstDayOfWeek - daysInMonth, TRUE)]

\* the 42 day cells of renderJalaliCalendar(), in order
renderJalaliCalendar(cal, zone) ==
    LET daysInMonth == JalaliCalendar_getDaysInJalaliMonth(cal.jalaliYear, cal.jalaliMonth)
        firstDayOfWeek == JalaliCalendar_getJalaliDayOfWeek(cal.jalaliYear, cal.jalaliMonth, 1, zone)
        prevMonth == IF cal.jalaliMonth = 1 THEN 12 ELSE cal.jalaliMonth - 1
        prevYear == IF cal.jalaliMonth = 1 THEN cal.jalaliYear - 1 ELSE cal.jalaliYear
        prevMonthDays == JalaliCalendar_getDaysInJalaliMonth(prevYear, prevMonth)
        nextMonthOf == IF cal.jalaliMonth = 12 THEN 1 ELSE cal.jalaliMonth + 1
        nextYear == IF cal.jalaliMonth = 12 THEN cal.jalaliYear + 1 ELSE cal.jalaliYear
        cell(y, m, d, other) ==
            LET greg == JalaliCalendar_jalaliToGregorian(y, m, d)
            IN  DayCell(y, m, d, other, formatDateString(greg.gy, greg.gm, greg.gd))
    IN  [k \in 1..42 |->
            IF k <= firstDayOfWeek
            THEN cell(prevYear, prevMonth, prevMonthDays - (firstDayOfWeek - k), TRUE)
            ELSE IF k <= firstDayOfWeek + daysInMonth
            THEN cell(cal.jalaliYear, cal.jalaliMonth, k - firstDayOfWeek, FALSE)
            ELSE cell(nextYear, nextMonthOf, k - firstDayOfWeek - daysInMonth, TRUE)]

\* Calendar.render(): the grid of the calendar's type
render(cal, zone) ==
    IF cal.type = "gregorian"
    THEN renderGregorianCalendar(cal, zone)
    ELSE renderJalaliCalendar(cal, zone)

(***************************************************************************)
(* The calendar is constructed on one of the sample days and then          *)
(* operated by its buttons and by clicks on the cells of its grid.         *)
(***************************************************************************)
MaxClicks == 2

TodayInputs ==
    { YMD(2024, 12, 15), YMD(2025, 1, 10), YMD(2025, 3, 25), YMD(2023, 3, 10) }

CalendarTypes == {"gregorian", "jalali"}

InitCalendar ==
    /\ fn = "new Calendar"
    /\ \E type \in CalendarTypes, today \in TodayInputs :
           /\ args = <<type>>
           /\ self = NewCalendar(type, today)
    /\ ret = Return("object")
    /\ tz = 0
    /\ calls = 0

CalendarPreviousMonth ==
    /\ calls < MaxClicks
    /\ fn' = "Calendar.previousMonth"
    /\ args' = <<>>
    /\ self' = previousMonth(self)
    /\ ret' = Return("undefined")
    /\ calls' = calls + 1
    /\ UNCHANGED tz

CalendarNextMonth ==
    /\ calls < MaxClicks
    /\ fn' = "Calendar.nextMonth"
    /\ args' = <<>>
    /\ self' = nextMonth(self)
    /\ ret' = Return("undefined")
    /\ calls' = calls + 1
    /\ UNCHANGED tz

CalendarGoToToday ==
    /\ calls < MaxClicks
    /\ fn' = "Calendar.goToToday"
    /\ args' = <<>>
    /\ self' = goToToday(self)
    /\ ret' = Return("undefined")
    /\ calls' = calls + 1
    /\ UNCHANGED tz

CalendarSetType ==
    /\ calls < MaxClicks
    /\ \E type \in CalendarTypes :
           /\ fn' = "Calendar.setType"
           /\ args' = <<type>>
           /\ self' = setType(self, type)
    /\ ret' = Return("undefined")
    /\ calls' = calls + 1
    /\ UNCHANGED tz

\* a click on a day cell of the grid
CalendarSelectDate ==
    /\ calls < MaxClicks
    /\ \E days \in {render(self, tz)}, k \in 1..42 :
               /\ fn' = "Calendar.selectDate"
               /\ args' = <<days[k].year, days[k].month, days[k].day,
                            days[k].isOtherMonth>>
               /\ self' = selectDate(self, days[k].year, days[k].month,
                                     days[k].day, days[k].isOtherMonth)
    /\ ret' = Return("undefined")
    /\ calls' = calls + 1
    /\ UNCHANGED tz

NextCalendar ==
    \/ CalendarPreviousMonth
    \/ CalendarNextMonth
    \/ CalendarGoToToday
    \/ CalendarSetType
    \/ CalendarSelectDate

SpecCalendar == InitCalendar /\ [][NextCalendar]_vars

(***************************************************************************)
(* PROPERTIES OF THE Calendar CLASS                                        *)
(***************************************************************************)

\* the month a calendar displays
Displayed(cal) ==
    IF cal.type = "gregorian"
    THEN <<cal.currentYear, cal.currentMonth>>
    ELSE <<cal.jalaliYear, cal.jalaliMonth>>

\* C23: after selectDate(year, month, day, true) on a cell of the grid, the
\* calendar displays the month (year, month) of the clicked cell, and the
\* selected key is the key of the clicked day.
C23_SelectNavigates ==
    [][(fn' = "Calendar.selectDate" /\ args'[4])
          => /\ Displayed(self') = <<args'[1], args'[2]>>
             /\ \E days \in {render(self, tz)}, k \in 1..42 :
                        /\ <<days[k].year, days[k].month, days[k].day>>
                             = <<args'[1], args'[2], args'[3]>>
                        /\ self'.selectedDate = days[k].dateKey]_vars

\* the day number of a date key of the form YYYY-MM-DD
JdnOfKey(key) ==
    LET parts == split(key)
    IN  DaysFromCivil(DigitsValue(parts[1]), DigitsValue(parts[2]), DigitsValue(parts[3]))

\* C25: in Jalali view the date keys of the 42 cells of the grid, read in
\* order, are 42 consecutive calendar days.
C25_JalaliGridConsecutive ==
    (self.kind = "Calendar" /\ self.type = "jalali")
        => \A days \in {renderJalaliCalendar(self, tz)}, k \in 1..41 :
               JdnOfKey(days[k + 1].dateKey) = JdnOfKey(days[k].dateKey) + 1

(***************************************************************************)
(* THE Calendar CLASS OF calendar.js (THE CALENDAR WIDGET)                 *)
(*                                                                         *)
(* The widget holds currentDate, a Date, and currentType; library tells    *)
(* whether window.JalaliDate is set.  It displays the month of             *)
(* currentDate.                                                            *)
(***************************************************************************)
\* date.setMonth(monthIndex): the local fields of the Date with the month
\* replaced; a month index outside 0..11 carries into the year, a day the
\* month does not have carries into the next month
DateSetMonth(t, monthIndex, zone) ==
    LET f == DateFields(t, zone)
        timeOfDay == (t + zone) % MinutesPerDay
        year == f.year + (monthIndex \div 12)
        month == (monthIndex % 12) + 1
        day == DaysFromCivil(year, month, 1) + f.day - 1
    IN  ((day - UnixEpochDay) * MinutesPerDay) + timeOfDay - zone

\* new Calendar() at the instant now
NewCalendarWidget(now, library) ==
    [kind |-> "CalendarWidget", currentDate |-> now,
     currentType |-> "gregorian", library |-> library]

\* the one element of a set of one element
TheOnly(S) == CHOOSE x \in S : TRUE

\* the Jalali month navigateMonth goes to from the Jalali date jalali
navigatedJalaliMonth(jalali, direction) ==
    LET moved == jalali.month + direction
    IN  IF moved > 12 THEN [year |-> jalali.year + 1, month |-> 1]
        ELSE IF moved < 1 THEN [year |-> jalali.year - 1, month |-> 12]
        ELSE [year |-> jalali.year, month |-> moved]

\* Calendar.navigateMonth(direction), called at the instant now
Calendar_navigateMonth(w, direction, now, zone) ==
    IF w.currentType = "gregorian"
    THEN [w EXCEPT !.currentDate =
             DateSetMonth(w.currentDate,
                          (DateFields(w.currentDate, zone).month - 1) + direction, zone)]
    ELSE TheOnly(
           { [w EXCEPT !.currentDate =
                 Calendar_jalaliToGregorian(new.year, new.month, 1, w.library, now, zone).v] :
             new \in { navigatedJalaliMonth(jalali, direction) :
                       jalali \in {Calendar_gregorianToJalali(w.currentDate, w.library, zone).v} } })

\* Calendar.goToToday(), called at the instant now
Calendar_goToToday(w, now) == [w EXCEPT !.currentDate = now]

\* Calendar.handleTypeToggle(e) for the button of the given type
Calendar_handleTypeToggle(w, type) ==
    IF type = "jalali" /\ ~w.library THEN w
    ELSE IF type # w.currentType THEN [w EXCEPT !.currentType = type]
    ELSE w

\* the instants at which a widget is constructed: 13:45 UTC of every day of
\* 2024
WidgetStartInputs ==
    { ((DaysFromCivil(2024, a[1], a[2]) - UnixEpochDay) * MinutesPerDay) + 825 :
          a \in { b \in (1..12) \X (1..31) : b[2] <= GregorianDaysInMonth(2024, b[1]) } }

InitWidget ==
    /\ fn = "new Calendar"
    /\ args = <<>>
    /\ \E now \in WidgetStartInputs, library \in BOOLEAN :
           self = NewCalendarWidget(now, library)
    /\ ret = Return("object")
    /\ tz \in TimeZones
    /\ calls = 0

WidgetNavigateMonth ==
    /\ calls < MaxClicks
    /\ \E direction \in {-1, 1}, now \in NowInputs :
           /\ fn' = "Calendar.navigateMonth"
           /\ args' = <<direction>>
           /\ self' = Calendar_navigateMonth(self, direction, now, tz)
    /\ ret' = Return("undefined")
    /\ calls' = calls + 1
    /\ UNCHANGED tz

WidgetGoToToday ==
    /\ calls < MaxClicks
    /\ \E now \in NowInputs :
           /\ fn' = "Calendar.goToToday"
           /\ args' = <<>>
           /\ self' = Calendar_goToToday(self, now)
    /\ ret' = Return("undefined")
    /\ calls' = calls + 1
    /\ UNCHANGED tz

WidgetHandleTypeToggle ==
    /\ calls < MaxClicks
    /\ \E type \in CalendarTypes :
           /\ fn' = "Calendar.handleTypeToggle"
           /\ args' = <<type>>
           /\ self' = Calendar_handleTypeToggle(self, type)
    /\ ret' = Return("undefined")
    /\ calls' = calls + 1
    /\ UNCHANGED tz

NextWidget ==
    \/ WidgetNavigateMonth
    \/ WidgetGoToToday
    \/ WidgetHandleTypeToggle

SpecWidget == InitWidget /\ [][NextWidget]_vars

(***************************************************************************)
(* PROPERTIES OF THE CALENDAR WIDGET                                       *)
(***************************************************************************)

\* the Gregorian month the widget displays
DisplayedMonth(w, zone) ==
    LET f == DateFields(w.currentDate, zone)
    IN  <<f.year, f.month>>

\* the calendar month that follows (direction 1) or precedes (direction -1)
\* the month ym
AdjacentMonth(ym, direction) ==
    LET n == (12 * ym[1]) + (ym[2] - 1) + direction
    IN  <<n \div 12, (n % 12) + 1>>

\* C24: in Gregorian mode navigateMonth(+1) displays the month that follows
\* the displayed one and navigateMonth(-1) the month that precedes it,
\* whatever the day of currentDate, and navigateMonth(+1) followed by
\* navigateMonth(-1) displays the original month.
C24_NoMonthSkipped ==
    [][(fn' = "Calendar.navigateMonth" /\ self.currentType = "gregorian")
          => /\ DisplayedMonth(self', tz)
                  = AdjacentMonth(DisplayedMonth(self, tz), args'[1])
             /\ args'[1] = 1
                  => \A now \in NowInputs :
                         DisplayedMonth(Calendar_navigateMonth(self', -1, now, tz), tz)
                           = DisplayedMonth(self, tz)]_vars

(***************************************************************************)
(* PROPERTIES OF THE YEAR LENGTH AND OF THE SETTERS                        *)
(***************************************************************************)

\* C26: for every Jalali year y >= 1 of the inputs, jalaliToJulian(y+1,1,1)
\* - jalaliToJulian(y,1,1) is 366 when isJalaliLeapYear(y) is true and 365
\* otherwise.
C26_YearLengthMatchesLeap ==
    (Called("jalaliToJulian") /\ args[1] >= 1 /\ args[2] = 1 /\ args[3] = 1)
        => /\ Returned(ret)
           /\ Returned(jalaliToJulian(args[1] + 1, 1, 1))
           /\ jalaliToJulian(args[1] + 1, 1, 1).v - ret.v
                = (IF isJalaliLeapYear(args[1]).v THEN 366 ELSE 365)

\* C27: when setFullYear, setMonth or setDate throws, the Jalali fields and
\* the Gregorian date of the object are exactly what they were before the
\* call.
C27_SettersAtomicOnFailure ==
    [][(fn' \in Setters /\ calls' = calls + 1 /\ ret' = Throw)
          => /\ self'.jDate = self.jDate
             /\ self'.gDate = self.gDate]_vars

(***************************************************************************)
(* STORAGE (storage.js)                                                    *)
(*                                                                         *)
(* localStorage is a record of its availability and of the item stored     *)
(* under each of Storage.KEYS: NullItem when getItem returns null, else    *)
(* the JSON text.  A JSON text is modelled by the value it denotes: the    *)
(* stored values are objects and arrays of records of strings, which       *)
(* JSON.parse(JSON.stringify(v)) reproduces.  A JavaScript object is a     *)
(* function whose domain is the set of its own property names.             *)
(***************************************************************************)
NullItem == [kind |-> "null"]

JSON_stringify(value) == [kind |-> "json", value |-> value]

JSON_parse(item) == item.value

EmptyObject == [k \in {} |-> << >>]

NewLocalStorage(available) ==
    [kind |-> "localStorage", available |-> available,
     DATE_NOTES |-> NullItem, QUICK_ACCESS |-> NullItem]

Storage_isAvailable(ls) == ls.available

\* get(key, defaultValue)
Storage_get(ls, key, defaultValue) ==
    IF ~Storage_isAvailable(ls)
    THEN defaultValue
    ELSE IF ls[key] = NullItem THEN defaultValue ELSE JSON_parse(ls[key])

\* set(key, value): [ok, ls]; quotaExceeded is localStorage.setItem throwing
Storage_set(ls, key, value, quotaExceeded) ==
    IF ~Storage_isAvailable(ls)
    THEN [ok |-> FALSE, ls |-> ls]
    ELSE IF quotaExceeded
         THEN [ok |-> FALSE, ls |-> ls]
         ELSE [ok |-> TRUE, ls |-> [ls EXCEPT ![key] = JSON_stringify(value)]]

\* arr.findIndex(n => n.id === id): the JavaScript index, -1 when absent
findIndex(arr, id) ==
    IF \E i \in 1..Len(arr) : arr[i].id = id
    THEN (CHOOSE i \in 1..Len(arr) :
              /\ arr[i].id = id
              /\ \A j \in 1..(i - 1) : arr[j].id # id) - 1
    ELSE -1

\* arr.filter(n => n.id !== id)
filterId(arr, id) == SelectSeq(arr, LAMBDA n : n.id # id)

\* obj[k] = v and delete obj[k]
SetProperty(obj, k, v) ==
    [x \in (DOMAIN obj) \cup {k} |-> IF x = k THEN v ELSE obj[x]]

DeleteProperty(obj, k) == [x \in (DOMAIN obj) \ {k} |-> obj[x]]

\* getDateNotes(dateKey)
Storage_getDateNotes(ls, dateKey) ==
    LET allDateNotes == Storage_get(ls, "DATE_NOTES", EmptyObject)
    IN  IF dateKey \in DOMAIN allDateNotes THEN allDateNotes[dateKey] ELSE << >>

\* saveDateNote(dateKey, note)
Storage_saveDateNote(ls, dateKey, note, quotaExceeded) ==
    LET stored == Storage_get(ls, "DATE_NOTES", EmptyObject)
        allDateNotes == IF dateKey \in DOMAIN stored
                        THEN stored
                        ELSE SetProperty(stored, dateKey, << >>)
        existingIndex == findIndex(allDateNotes[dateKey], note.id)
        list == IF existingIndex >= 0
                THEN [allDateNotes[dateKey] EXCEPT ![existingIndex + 1] = note]
                ELSE <<note>> \o allDateNotes[dateKey]
    IN  Storage_set(ls, "DATE_NOTES", SetProperty(allDateNotes, dateKey, list),
                    quotaExceeded)

Storage_deleteDateNoteKeepEmpty(ls, dateKey, noteId, quotaExceeded) ==
    LET stored == Storage_get(ls, "DATE_NOTES", EmptyObject)
        allDateNotes ==
            IF dateKey \in DOMAIN stored
            THEN SetProperty(stored, dateKey, filterId(stored[dateKey], noteId))
            ELSE stored
    IN  Storage_set(ls, "DATE_NOTES", allDateNotes, quotaExceeded)

\* deleteDateNote(dateKey, noteId)
Storage_deleteDateNote(ls, dateKey, noteId, quotaExceeded) ==
    LET stored == Storage_get(ls, "DATE_NOTES", EmptyObject)
        allDateNotes ==
            IF dateKey \in DOMAIN stored
            THEN LET filtered == filterId(stored[dateKey], noteId)
                 IN  IF Len(filtered) = 0
                     THEN DeleteProperty(stored, dateKey)
                     ELSE SetProperty(stored, dateKey, filtered)
            ELSE stored
    IN  Storage_set(ls, "DATE_NOTES", allDateNotes, quotaExceeded)

\* getDatesWithNotes(): the keys, as a set
Storage_getDatesWithNotes(ls) ==
    LET allDateNotes == Storage_get(ls, "DATE_NOTES", EmptyObject)
    IN  {key \in DOMAIN allDateNotes : Len(allDateNotes[key]) > 0}

(***************************************************************************)
(* SpecStorage: Storage over an initially empty localStorage; self is the  *)
(* localStorage.                                                           *)
(***************************************************************************)
StorageDateKeys == {"2024-03-20", "2024-03-21"}

NoteIds == {"n1", "n2"}

NoteContents == {"a", "b"}

NoteInputs == [id : NoteIds, content : NoteContents]

InitStorage ==
    /\ fn = "none"
    /\ args = << >>
    /\ ret = Pending
    /\ self \in {NewLocalStorage(available) : available \in BOOLEAN}
    /\ tz = 0
    /\ calls = 0

StorageSaveDateNote ==
    \E dateKey \in StorageDateKeys, note \in NoteInputs, quotaExceeded \in BOOLEAN :
        LET r == Storage_saveDateNote(self, dateKey, note, quotaExceeded)
        IN  /\ fn' = "Storage.saveDateNote"
            /\ args' = <<dateKey, note>>
            /\ ret' = Return(r.ok)
            /\ self' = r.ls
            /\ UNCHANGED <<tz, calls>>

StorageDeleteDateNote ==
    \E dateKey \in StorageDateKeys, noteId \in NoteIds, quotaExceeded \in BOOLEAN :
        LET r == Storage_deleteDateNote(self, dateKey, noteId, quotaExceeded)
        IN  /\ fn' = "Storage.deleteDateNote"
            /\ args' = <<dateKey, noteId>>
            /\ ret' = Return(r.ok)
            /\ self' = r.ls
            /\ UNCHANGED <<tz, calls>>

StorageGetDateNotes ==
    \E dateKey \in StorageDateKeys :
        /\ fn' = "Storage.getDateNotes"
        /\ args' = <<dateKey>>
        /\ ret' = Return(Storage_getDateNotes(self, dateKey))
        /\ UNCHANGED <<self, tz, calls>>

StorageGetDatesWithNotes ==
    /\ fn' = "Storage.getDatesWithNotes"
    /\ args' = << >>
    /\ ret' = Return(Storage_getDatesWithNotes(self))
    /\ UNCHANGED <<self, tz, calls>>

NextStorage ==
    \/ StorageSaveDateNote
    \/ StorageDeleteDateNote
    \/ StorageGetDateNotes
    \/ StorageGetDatesWithNotes

SpecStorage == InitStorage /\ [][NextStorage]_vars

\* the stored date-notes map
DateNotesMap == Storage_get(self, "DATE_NOTES", EmptyObject)

\* C28: after any sequence of saveDateNote and deleteDateNote calls from an
\* empty, available storage no date key of the stored map has an empty list,
\* the key of a successful deleteDateNote that removed the last note of its
\* date is absent from the map, and getDatesWithNotes returns exactly the
\* keys of the map.
C28_NoEmptyDateKey ==
    self.available
        => /\ \A key \in DOMAIN DateNotesMap : Len(DateNotesMap[key]) > 0
           /\ Storage_getDatesWithNotes(self) = DOMAIN DateNotesMap
           /\ (Called("Storage.getDatesWithNotes")
                 => ret = Return(DOMAIN DateNotesMap))
           /\ (Called("Storage.deleteDateNote") /\ ret = Return(TRUE)
                 => \/ args[1] \notin DOMAIN DateNotesMap
                    \/ /\ Len(DateNotesMap[args[1]]) > 0
                       /\ findIndex(DateNotesMap[args[1]], args[2]) = -1)

\* saveDateNote has stored the only note of 2024-03-20 beside the two notes
\* of 2024-03-21, and deleteDateNote of that note leaves 2024-03-21 alone
C28_Witness ==
    /\ self.available
    /\ fn = "Storage.saveDateNote"
    /\ args = <<"2024-03-20", [id |-> "n1", content |-> "a"]>>
    /\ ret = Return(TRUE)
    /\ DOMAIN DateNotesMap = StorageDateKeys
    /\ DateNotesMap["2024-03-20"] = <<[id |-> "n1", content |-> "a"]>>
    /\ Len(DateNotesMap["2024-03-21"]) = 2
    /\ Storage_getDatesWithNotes(
           Storage_deleteDateNote(self, "2024-03-20", "n1", FALSE).ls)
         = {"2024-03-21"}

(***************************************************************************)
(* QUICK ACCESS (quickaccess.js, storage.js)                               *)
(*                                                                         *)
(* An item is [id, title, url]; ids are positive numbers and NullId is     *)
(* the null of currentEditingId.  Utils.generateId() is built from         *)
(* Date.now(): it is modelled by a clock that advances at each call, so    *)
(* that a generated id is never the id of an earlier item.  The module     *)
(* records the display of the modal and the message of the last toast.     *)
(***************************************************************************)
MAX_ITEMS == 12

NullId == 0

ValidUrl == "https://a.example"

FtpUrl == "ftp://c.example"

\* new URL(str).protocol, Throw when str is not a URL
UrlProtocol(str) ==
    IF str = ValidUrl THEN Return("https:")
    ELSE IF str = FtpUrl THEN Return("ftp:")
    ELSE Throw

\* Utils.isValidUrl(str)
Utils_isValidUrl(str) ==
    LET url == UrlProtocol(str)
    IN  IF Threw(url) THEN FALSE ELSE url.v = "http:" \/ url.v = "https:"

\* String.prototype.trim on the inputs of the form
trim(str) == IF str = " " THEN "" ELSE str

ToastNone == "none"
ToastRequired == "title and url are required"
ToastInvalidUrl == "url is not valid"
ToastMaxItems == "at most MAX_ITEMS items"
ToastUpdated == "item updated"
ToastAdded == "item added"
ToastDeleted == "item deleted"

\* getQuickAccess()
Storage_getQuickAccess(ls) == Storage_get(ls, "QUICK_ACCESS", << >>)

\* saveQuickAccessItem(item)
Storage_saveQuickAccessItem(ls, item, quotaExceeded) ==
    LET items == Storage_getQuickAccess(ls)
        existingIndex == findIndex(items, item.id)
    IN  Storage_set(ls, "QUICK_ACCESS",
                    IF existingIndex >= 0
                    THEN [items EXCEPT ![existingIndex + 1] = item]
                    ELSE Append(items, item),
                    quotaExceeded)

\* deleteQuickAccessItem(itemId)
Storage_deleteQuickAccessItem(ls, itemId, quotaExceeded) ==
    Storage_set(ls, "QUICK_ACCESS",
                filterId(Storage_getQuickAccess(ls), itemId), quotaExceeded)

NewQuickAccess(ls, clock) ==
    [kind |-> "QuickAccess", currentEditingId |-> NullId, display |-> "none",
     toast |-> ToastNone, clock |-> clock, localStorage |-> ls]

\* openModal(itemId)
QuickAccess_openModal(qa, itemId) ==
    LET items == Storage_getQuickAccess(qa.localStorage)
        found == itemId # NullId /\ findIndex(items, itemId) >= 0
    IN  [qa EXCEPT !.currentEditingId = IF found THEN itemId ELSE NullId,
                   !.display = "flex"]

\* closeModal()
QuickAccess_closeModal(qa) ==
    [qa EXCEPT !.display = "none", !.currentEditingId = NullId]

QuickAccess_saveItemNoLimit(qa, titleValue, urlValue, quotaExceeded) ==
    LET title == trim(titleValue)
        url == trim(urlValue)
    IN  IF title = "" \/ url = ""
        THEN [qa EXCEPT !.toast = ToastRequired]
        ELSE IF ~Utils_isValidUrl(url)
        THEN [qa EXCEPT !.toast = ToastInvalidUrl]
        ELSE LET editing == qa.currentEditingId # NullId
                 item == [id |-> IF editing THEN qa.currentEditingId ELSE qa.clock,
                          title |-> title, url |-> url]
                 saved == Storage_saveQuickAccessItem(qa.localStorage, item,
                                                      quotaExceeded).ls
                 closed == QuickAccess_closeModal(
                               [qa EXCEPT !.localStorage = saved,
                                          !.clock = IF editing THEN @ ELSE @ + 1])
             IN  [closed EXCEPT !.toast = IF closed.currentEditingId # NullId
                                          THEN ToastUpdated
                                          ELSE ToastAdded]

\* saveItem(); titleValue and urlValue are the values of the form's inputs
QuickAccess_saveItem(qa, titleValue, urlValue, quotaExceeded) ==
    LET title == trim(titleValue)
        url == trim(urlValue)
        items == Storage_getQuickAccess(qa.localStorage)
    IN  IF title = "" \/ url = ""
        THEN [qa EXCEPT !.toast = ToastRequired]
        ELSE IF ~Utils_isValidUrl(url)
        THEN [qa EXCEPT !.toast = ToastInvalidUrl]
        ELSE IF qa.currentEditingId = NullId /\ Len(items) >= MAX_ITEMS
        THEN [qa EXCEPT !.toast = ToastMaxItems]
        ELSE LET editing == qa.currentEditingId # NullId
                 item == [id |-> IF editing THEN qa.currentEditingId ELSE qa.clock,
                          title |-> title, url |-> url]
                 saved == Storage_saveQuickAccessItem(qa.localStorage, item,
                                                      quotaExceeded).ls
                 closed == QuickAccess_closeModal(
                               [qa EXCEPT !.localStorage = saved,
                                          !.clock = IF editing THEN @ ELSE @ + 1])
             IN  [closed EXCEPT !.toast = IF closed.currentEditingId # NullId
                                          THEN ToastUpdated
                                          ELSE ToastAdded]

\* deleteItem(itemId); confirmed is the answer to confirm()
QuickAccess_deleteItem(qa, itemId, confirmed, quotaExceeded) ==
    IF confirmed
    THEN [qa EXCEPT !.localStorage =
                        Storage_deleteQuickAccessItem(@, itemId, quotaExceeded).ls,
                    !.toast = ToastDeleted]
    ELSE qa

(***************************************************************************)
(* SpecQuickAccess: the module over a localStorage that holds 0, 1, 11 or  *)
(* 12 items; self is the module.  The edit and delete buttons are those of *)
(* the first and of the last tile, and the form is submitted while the     *)
(* modal is displayed.                                                     *)
(***************************************************************************)
MaxQuickCalls == 4

StoredCounts == {0, 1, MAX_ITEMS - 1, MAX_ITEMS}

TitleInputs == {" ", "a", "b"}

UrlInputs == {" ", ValidUrl, FtpUrl, "a.example"}

StoredItems(n) == [i \in 1..n |-> [id |-> i, title |-> "a", url |-> ValidUrl]]

StoredLocalStorage(n) ==
    IF n = 0
    THEN NewLocalStorage(TRUE)
    ELSE [NewLocalStorage(TRUE) EXCEPT
              !.QUICK_ACCESS = JSON_stringify(StoredItems(n))]

QuickItems == Storage_getQuickAccess(self.localStorage)

TileInputs ==
    {QuickItems[i].id : i \in {1, Len(QuickItems)} \cap (1..Len(QuickItems))}

InitQuickAccess ==
    /\ fn = "QuickAccess.init"
    /\ args = << >>
    /\ ret = Return("undefined")
    /\ self \in {NewQuickAccess(StoredLocalStorage(n), MAX_ITEMS + 1) :
                    n \in StoredCounts}
    /\ tz = 0
    /\ calls = 0

QuickAccessOpenModal ==
    /\ calls < MaxQuickCalls
    /\ \E itemId \in {NullId} \cup TileInputs :
        /\ fn' = "QuickAccess.openModal"
        /\ args' = <<itemId>>
        /\ ret' = Return("undefined")
        /\ self' = QuickAccess_openModal(self, itemId)
        /\ calls' = calls + 1
        /\ UNCHANGED tz

QuickAccessCloseModal ==
    /\ calls < MaxQuickCalls
    /\ fn' = "QuickAccess.closeModal"
    /\ args' = << >>
    /\ ret' = Return("undefined")
    /\ self' = QuickAccess_closeModal(self)
    /\ calls' = calls + 1
    /\ UNCHANGED tz

QuickAccessSaveItem ==
    /\ calls < MaxQuickCalls
    /\ self.display = "flex"
    /\ \E titleValue \in TitleInputs, urlValue \in UrlInputs,
          quotaExceeded \in BOOLEAN :
        /\ fn' = "QuickAccess.saveItem"
        /\ args' = <<titleValue, urlValue>>
        /\ ret' = Return("undefined")
        /\ self' = QuickAccess_saveItem(self, titleValue, urlValue, quotaExceeded)
        /\ calls' = calls + 1
        /\ UNCHANGED tz

QuickAccessDeleteItem ==
    /\ calls < MaxQuickCalls
    /\ \E itemId \in TileInputs, confirmed \in BOOLEAN, quotaExceeded \in BOOLEAN :
        /\ fn' = "QuickAccess.deleteItem"
        /\ args' = <<itemId>>
        /\ ret' = Return("undefined")
        /\ self' = QuickAccess_deleteItem(self, itemId, confirmed, quotaExceeded)
        /\ calls' = calls + 1
        /\ UNCHANGED tz

NextQuickAccess ==
    \/ QuickAccessOpenModal
    \/ QuickAccessCloseModal
    \/ QuickAccessSaveItem
    \/ QuickAccessDeleteItem

SpecQuickAccess == InitQuickAccess /\ [][NextQuickAccess]_vars

\* the form holds a title and a URL that saveItem accepts
ValidForm(titleValue, urlValue) ==
    /\ trim(titleValue) # ""
    /\ trim(urlValue) # ""
    /\ Utils_isValidUrl(trim(urlValue))

\* C29: the number of stored quick-access items never exceeds MAX_ITEMS; a
\* saveItem in creating mode when MAX_ITEMS items are stored leaves the
\* stored items unchanged; a saveItem of a valid form in editing mode, for an
\* item that is stored, is accepted (the modal is closed, no limit message)
\* and leaves the count unchanged, the item being replaced unless the write
\* failed.
C29_AtMostMaxItems ==
    [][/\ Len(QuickItems) <= MAX_ITEMS
       /\ Len(QuickItems') <= MAX_ITEMS
       /\ (/\ fn' = "QuickAccess.saveItem"
           /\ self.currentEditingId = NullId
           /\ Len(QuickItems) = MAX_ITEMS)
            => QuickItems' = QuickItems
       /\ (/\ fn' = "QuickAccess.saveItem"
           /\ findIndex(QuickItems, self.currentEditingId) >= 0
           /\ ValidForm(args'[1], args'[2]))
            => /\ self'.display = "none"
               /\ self'.toast # ToastMaxItems
               /\ Len(QuickItems') = Len(QuickItems)
               /\ QuickItems' \in
                    {QuickItems,
                     [QuickItems EXCEPT
                        ![findIndex(QuickItems, self.currentEditingId) + 1] =
                            [id |-> self.currentEditingId,
                             title |-> trim(args'[1]),
                             url |-> trim(args'[2])]]}]_vars

\* a valid form was submitted in creating mode while MAX_ITEMS items were
\* stored: the limit message is shown and the modal stays open
C29_Witness ==
    /\ fn = "QuickAccess.saveItem"
    /\ ValidForm(args[1], args[2])
    /\ self.currentEditingId = NullId
    /\ self.display = "flex"
    /\ self.toast = ToastMaxItems
    /\ Len(QuickItems) = MAX_ITEMS

\* C30: when saveItem stores an item, the toast is the 'updated' message if
\* currentEditingId was set when saveItem began and the 'added' message if
\* it was not.
C30_ToastReflectsOperation ==
    [][(fn' = "QuickAccess.saveItem" /\ self'.toast \in {ToastUpdated, ToastAdded})
          => (self'.toast = ToastUpdated <=> self.currentEditingId # NullId)]_vars

=============================================================================
